---- MODULE Spec2Model ----
(***************************************************************************)
(* Model of the assignment recommendation engine of the Jira plugin:       *)
(* src/src/assignment/autoAssign.js (recommendAssignee and its helpers)    *)
(* over the key-value cache of src/src/cache.js.                           *)
(*                                                                         *)
(* The Forge key-value store is durable remote storage: kvs.get returns a  *)
(* fresh copy of the stored bucket, and only kvs.set / kvs.delete change   *)
(* what is stored.  JavaScript Sets are modelled as duplicate-free         *)
(* sequences in insertion order (the iteration order of a Set).            *)
(* Scores are fixed-point integers in units of 1/10000.                    *)
(***************************************************************************)
EXTENDS Integers, Sequences, FiniteSets, TLC

\* ------------------------------------------------------------------------
\* Universe of the model
\* ------------------------------------------------------------------------

Null == "null"

\* number of accounts that take part (bound of the model)
NumAccounts == 3

AccountNames == <<"user-1", "user-2", "user-3", "user-4", "user-5">>

Accounts == {AccountNames[i] : i \in 1..NumAccounts}

\* every account of the project, taking part in the calls or not
AllAccounts == {AccountNames[i] : i \in 1..Len(AccountNames)}

IssueKeys == {"PROJ-1", "PROJ-2"}

\* issue keys the recommendation calls of Spec are made for
CallKeys == {"PROJ-1"}

\* invocation slots; Spec runs the calls of slot 1 one after another
Procs == {1, 2}

\* rosters the assignable-user search can return: the first accounts of the
\* project, with or without the first one
RosterValues == {{AccountNames[i] : i \in lo..hi} : lo \in 1..2, hi \in 0..NumAccounts}

\* ------------------------------------------------------------------------
\* Sequence helpers
\* ------------------------------------------------------------------------

Range(s) == {s[i] : i \in 1..Len(s)}

Contains(s, x) == \E i \in 1..Len(s) : s[i] = x

NoDuplicates(s) == \A i, j \in 1..Len(s) : s[i] = s[j] => i = j

\* Set.prototype.add on an insertion-ordered set
SetAdd(s, x) == IF Contains(s, x) THEN s ELSE Append(s, x)

RECURSIVE SetFromArray(_)
\* new Set(array): first occurrences, in order
SetFromArray(arr) ==
    IF arr = <<>> THEN <<>>
    ELSE SetAdd(SetFromArray(SubSeq(arr, 1, Len(arr) - 1)), arr[Len(arr)])

\* Array.from(set)
ArrayFromSet(s) == s

\* Array.prototype.slice(from) with a 0-based start index
SliceFrom(s, from) == IF from >= Len(s) THEN <<>> ELSE SubSeq(s, from + 1, Len(s))

\* Array.prototype.slice(from, to) with 0-based, end-exclusive indices
Slice(s, from, to) ==
    IF from >= Len(s) \/ to <= from THEN <<>>
    ELSE SubSeq(s, from + 1, IF to > Len(s) THEN Len(s) ELSE to)

\* ------------------------------------------------------------------------
\* Scoring configuration (fixed point, 1/10000)
\* ------------------------------------------------------------------------

W_LABEL == 32
W_COMPONENT == 24
W_ISSUE_TYPE == 28
W_EPIC == 14
W_PARENT == 16
W_HISTORICAL_EXACT == 50000
W_DIRECT_WORKLOG == 25
W_DIRECT_COMMENT == 12
W_GENERAL_ASSIGNMENTS == 9
W_GENERAL_WORKLOGS == 7
W_GENERAL_COMMENTS == 5
W_WORKLOAD_OPEN_ISSUES == 8500
W_WORKLOAD_ESTIMATE_HOURS == 1200

ALTERNATIVE_LIMIT == 3

\* 1000 * Math.log1p(n), rounded, for the counts the fixtures use
Log1pMilli(n) ==
    CASE n <= 0 -> 0
      [] n = 1 -> 693
      [] n = 2 -> 1099
      [] n = 3 -> 1386
      [] n = 4 -> 1609
      [] n = 5 -> 1792
      [] n = 6 -> 1946
      [] n = 7 -> 2079
      [] OTHER -> 2197

AllCriteria ==
    [supplied |-> FALSE,
     labels |-> TRUE, components |-> TRUE, issueType |-> TRUE, epic |-> TRUE,
     parent |-> TRUE, previousAssignee |-> TRUE, worklogs |-> TRUE,
     comments |-> TRUE, overallAssignments |-> TRUE, overallWorklogs |-> TRUE,
     overallComments |-> TRUE, workloadOpenIssues |-> TRUE,
     workloadEstimateHours |-> TRUE]

\* a caller-supplied override that switches the metadata signals off
MetadataOff ==
    [AllCriteria EXCEPT !.supplied = TRUE, !.labels = FALSE, !.components = FALSE,
                        !.issueType = FALSE]

\* a caller-supplied override that leaves only the history signals on: no
\* metadata signals and no workload penalties
HistoryOnly ==
    [MetadataOff EXCEPT !.workloadOpenIssues = FALSE, !.workloadEstimateHours = FALSE]

\* what callers pass: no criteria at all, or the override
CriteriaValues == {AllCriteria, HistoryOnly}

\* the names of the thirteen flags
CriteriaFlags ==
    {"labels", "components", "issueType", "epic", "parent", "previousAssignee",
     "worklogs", "comments", "overallAssignments", "overallWorklogs",
     "overallComments", "workloadOpenIssues", "workloadEstimateHours"}

\* a criteria object with the named flags on and the others off
CriteriaWith(on) ==
    [supplied |-> TRUE,
     labels |-> "labels" \in on, components |-> "components" \in on,
     issueType |-> "issueType" \in on, epic |-> "epic" \in on,
     parent |-> "parent" \in on, previousAssignee |-> "previousAssignee" \in on,
     worklogs |-> "worklogs" \in on, comments |-> "comments" \in on,
     overallAssignments |-> "overallAssignments" \in on,
     overallWorklogs |-> "overallWorklogs" \in on,
     overallComments |-> "overallComments" \in on,
     workloadOpenIssues |-> "workloadOpenIssues" \in on,
     workloadEstimateHours |-> "workloadEstimateHours" \in on]

\* criteria = null: no object, so no flag of it is ever read
NullCriteria == [CriteriaWith({}) EXCEPT !.supplied = FALSE]

EnabledCriteriaEveryFlagOn(criteria) == AllCriteria

\* criteria || { all true }
EnabledCriteria(criteria) == IF criteria.supplied THEN criteria ELSE AllCriteria

\* ------------------------------------------------------------------------
\* JavaScript values and numbers
\* ------------------------------------------------------------------------

\* a value read from cached data: a number, a string that is not numeric, or
\* a property that is missing
Num(n) == [type |-> "number", n |-> n]

NotNumeric == [type |-> "string", n |-> 0]

Undefined == [type |-> "undefined", n |-> 0]

\* a number that was computed: a finite value, NaN or -Infinity
Finite(n) == [kind |-> "finite", n |-> n]

NaN == [kind |-> "NaN", n |-> 0]

NegInfinity == [kind |-> "-Infinity", n |-> 0]

\* Number(v)
ToNumber(v) == IF v.type = "number" THEN Finite(v.n) ELSE NaN

\* x || 0 for a number x: NaN and 0 are falsy
OrZero(x) == IF x.kind = "NaN" \/ (x.kind = "finite" /\ x.n = 0) THEN Finite(0) ELSE x

\* v || 0 for a value v: undefined and 0 are falsy, a non-empty string is not
ValueOrZero(v) ==
    IF v.type = "undefined" \/ (v.type = "number" /\ v.n = 0) THEN Num(0) ELSE v

\* x + y
Plus(x, y) ==
    IF x.kind = "NaN" \/ y.kind = "NaN" THEN NaN
    ELSE IF x.kind = "-Infinity" \/ y.kind = "-Infinity" THEN NegInfinity
    ELSE Finite(x.n + y.n)

MinusAdding(x, y) == IF x.kind = "finite" THEN Finite(x.n + y) ELSE x

\* x - y for a finite y
Minus(x, y) == IF x.kind = "finite" THEN Finite(x.n - y) ELSE x

\* weight * x for a positive weight
Scale(weight, x) == IF x.kind = "finite" THEN Finite(weight * x.n) ELSE x

\* ------------------------------------------------------------------------
\* Cached data the ranker reads (processed issue, profiles, workloads)
\* ------------------------------------------------------------------------

ProcessedIssue ==
    [labels |-> <<"frontend">>, components |-> <<"api">>, issueType |-> "Bug",
     epic |-> "EPIC-1", parent |-> "PROJ-0",
     historicalAssignees |-> <<>>,
     worklogContributors |->
         <<[accountId |-> "user-2", hours |-> Num(1), logCount |-> Num(1)]>>,
     commentContributors |-> <<[accountId |-> "user-3", commentCount |-> Num(2)]>>]

NoProfile ==
    [present |-> FALSE, displayName |-> Null,
     labels |-> <<>>, components |-> <<>>, issueTypes |-> <<>>, epics |-> <<>>,
     parents |-> <<>>, assignedIssues |-> 0, worklogIssues |-> 0, commentedIssues |-> 0]

\* name -> count maps are sequences of <<name, count>> pairs; the times of
\* worklogs and workloads are held in hours (3600 seconds)
Profiles ==
    [a \in AllAccounts |->
       CASE a = "user-1" ->
              [NoProfile EXCEPT !.present = TRUE, !.displayName = "Alice",
                                !.labels = << <<"frontend", Num(5)>> >>,
                                !.components = << <<"api", Num(2)>> >>,
                                !.issueTypes = << <<"Bug", Num(3)>> >>]
         [] a = "user-2" ->
              [NoProfile EXCEPT !.present = TRUE, !.displayName = "Bob",
                                !.labels = << <<"frontend", Num(1)>> >>,
                                !.issueTypes = << <<"Bug", Num(1)>> >>,
                                !.assignedIssues = 2]
         [] OTHER -> NoProfile]

\* no workload snapshot cached for the account
NoWorkload ==
    [present |-> FALSE, object |-> FALSE, totalIssues |-> Undefined,
     estimateHours |-> Undefined]

\* a workload snapshot with its two totals
Workload(totalIssues, estimateHours) ==
    [present |-> TRUE, object |-> TRUE, totalIssues |-> totalIssues,
     estimateHours |-> estimateHours]

Workloads ==
    [a \in AllAccounts |->
       CASE a = "user-1" -> Workload(Num(1), Num(0))
         [] a = "user-2" -> Workload(Num(5), Num(4))
         [] OTHER -> NoWorkload]

\* displayName of the roster entry of an account
RosterDisplayName(a) ==
    CASE a = "user-1" -> "Alice"
      [] a = "user-2" -> "Bob"
      [] a = "user-3" -> "Carol"
      [] a = "user-4" -> "Dave"
      [] OTHER -> "Erin"

\* position of a display name under String.prototype.localeCompare
NameRank(n) ==
    CASE n = "Alice" -> 1
      [] n = "Bob" -> 2
      [] n = "Carol" -> 3
      [] n = "Dave" -> 4
      [] n = "Erin" -> 5
      [] OTHER -> 6

\* Number(map[key]) || 0
CountOf(map, key) ==
    IF \E i \in 1..Len(map) : map[i][1] = key
    THEN OrZero(ToNumber((map[CHOOSE i \in 1..Len(map) : map[i][1] = key])[2])).n
    ELSE 0

RECURSIVE SumSeq(_)
SumSeq(s) == IF s = <<>> THEN 0 ELSE s[1] + SumSeq(Tail(s))

\* ------------------------------------------------------------------------
\* Score calculator
\* ------------------------------------------------------------------------

\* Math.log1p(x) for a whole x
Log1p(x) ==
    IF x.kind # "finite" THEN NaN
    ELSE IF x.n < -1 THEN NaN
    ELSE IF x.n = -1 THEN NegInfinity
    ELSE Finite(Log1pMilli(x.n))

\* weight * log1p(count) when count > 0, else no contribution
Contribution(weight, count) == IF count > 0 THEN weight * Log1pMilli(count) ELSE 0

\* the entry of the account in a list of contributors, or none
EntryOf(contributors, accountId) ==
    IF \E i \in 1..Len(contributors) : contributors[i].accountId = accountId
    THEN <<contributors[CHOOSE i \in 1..Len(contributors) :
                           contributors[i].accountId = accountId
                           /\ \A j \in 1..(i - 1) : contributors[j].accountId # accountId]>>
    ELSE <<>>

calculateWorkloadPenalty(workload, criteria) ==
    LET enabledCriteria == EnabledCriteria(criteria)
        open == IF enabledCriteria.workloadOpenIssues
                THEN W_WORKLOAD_OPEN_ISSUES * OrZero(ToNumber(workload.totalIssues)).n
                ELSE 0
        est == IF enabledCriteria.workloadEstimateHours
               THEN W_WORKLOAD_ESTIMATE_HOURS * OrZero(ToNumber(workload.estimateHours)).n
               ELSE 0
    IN IF ~workload.present \/ ~workload.object THEN 0 ELSE open + est

\* the score of one candidate; a number of the result is its value, with its
\* kind next to it where the number may not be finite
calculateCandidateScore(issue, accountId, displayName, profile, workload, criteria) ==
    LET enabledCriteria == EnabledCriteria(criteria)
        safeProfile == IF profile.present THEN profile ELSE NoProfile
        safeWorkload == IF workload.present THEN workload ELSE Workload(Num(0), Num(0))
        labelCounts == [i \in 1..Len(issue.labels) |->
                           CountOf(safeProfile.labels, issue.labels[i])]
        componentCounts == [i \in 1..Len(issue.components) |->
                               CountOf(safeProfile.components, issue.components[i])]
        labelScore ==
            IF enabledCriteria.labels
            THEN SumSeq([i \in 1..Len(labelCounts) |->
                           Contribution(W_LABEL, labelCounts[i])])
            ELSE 0
        componentScore ==
            IF enabledCriteria.components
            THEN SumSeq([i \in 1..Len(componentCounts) |->
                           Contribution(W_COMPONENT, componentCounts[i])])
            ELSE 0
        issueTypeCount ==
            IF enabledCriteria.issueType /\ issue.issueType # Null
            THEN CountOf(safeProfile.issueTypes, issue.issueType) ELSE 0
        epicCount ==
            IF enabledCriteria.epic /\ issue.epic # Null
            THEN CountOf(safeProfile.epics, issue.epic) ELSE 0
        parentCount ==
            IF enabledCriteria.parent /\ issue.parent # Null
            THEN CountOf(safeProfile.parents, issue.parent) ELSE 0
        match ==
            enabledCriteria.previousAssignee /\ Contains(issue.historicalAssignees, accountId)
        logEntry ==
            IF enabledCriteria.worklogs
            THEN EntryOf(issue.worklogContributors, accountId) ELSE <<>>
        worklogScore ==
            IF logEntry # <<>>
            THEN LET timeHours == OrZero(ToNumber(logEntry[1].hours))
                 IN Scale(W_DIRECT_WORKLOG,
                          Log1p(Plus(timeHours,
                                     ToNumber(ValueOrZero(logEntry[1].logCount)))))
            ELSE Finite(0)
        commentEntry ==
            IF enabledCriteria.comments
            THEN EntryOf(issue.commentContributors, accountId) ELSE <<>>
        commentScore ==
            IF commentEntry # <<>>
            THEN Scale(W_DIRECT_COMMENT,
                       Log1p(OrZero(ToNumber(commentEntry[1].commentCount))))
            ELSE Finite(0)
        assignedHistory ==
            IF enabledCriteria.overallAssignments THEN safeProfile.assignedIssues ELSE 0
        worklogHistory ==
            IF enabledCriteria.overallWorklogs THEN safeProfile.worklogIssues ELSE 0
        commentHistory ==
            IF enabledCriteria.overallComments THEN safeProfile.commentedIssues ELSE 0
        guarded == labelScore + componentScore
                   + Contribution(W_ISSUE_TYPE, issueTypeCount)
                   + Contribution(W_EPIC, epicCount)
                   + Contribution(W_PARENT, parentCount)
                   + (IF match THEN W_HISTORICAL_EXACT ELSE 0)
                   + Contribution(W_GENERAL_ASSIGNMENTS, assignedHistory)
                   + Contribution(W_GENERAL_WORKLOGS, worklogHistory)
                   + Contribution(W_GENERAL_COMMENTS, commentHistory)
        workloadPenalty == calculateWorkloadPenalty(safeWorkload, enabledCriteria)
        evidence ==
            (IF enabledCriteria.labels /\ \E i \in 1..Len(labelCounts) : labelCounts[i] > 0
             THEN {"labels"} ELSE {})
            \cup (IF enabledCriteria.components
                      /\ \E i \in 1..Len(componentCounts) : componentCounts[i] > 0
                   THEN {"components"} ELSE {})
            \cup (IF issueTypeCount > 0 THEN {"issueTypes"} ELSE {})
            \cup (IF epicCount > 0 THEN {"epics"} ELSE {})
            \cup (IF parentCount > 0 THEN {"parents"} ELSE {})
            \cup (IF match THEN {"historical-assignee"} ELSE {})
            \cup (IF logEntry # <<>> THEN {"worklog"} ELSE {})
            \cup (IF commentEntry # <<>> THEN {"comment"} ELSE {})
            \cup (IF assignedHistory > 0 THEN {"assigned-issue-count"} ELSE {})
            \cup (IF worklogHistory > 0 THEN {"worklog-issue-count"} ELSE {})
            \cup (IF commentHistory > 0 THEN {"comment-issue-count"} ELSE {})
        \* the record that is returned, from the values of the contributions
        \* (v[1], v[2], v[3]) and of the penalty (v[4])
        Scored(v) ==
            LET rawScore == Plus(Plus(Finite(v[1]), v[2]), v[3])
                finalScore == Minus(rawScore, v[4])
            IN [accountId |-> accountId,
                displayName |-> IF displayName # Null THEN displayName
                                ELSE IF safeProfile.displayName # Null
                                     THEN safeProfile.displayName
                                ELSE "Unknown",
                rawScore |-> rawScore.n,
                rawScoreKind |-> rawScore.kind,
                workloadPenalty |-> v[4],
                finalScore |-> finalScore.n,
                finalScoreKind |-> finalScore.kind,
                evidence |-> evidence]
    IN CHOOSE score \in {Scored(v) : v \in {<<guarded, worklogScore, commentScore,
                                               workloadPenalty>>}} : TRUE

\* ------------------------------------------------------------------------
\* Candidate ranker
\* ------------------------------------------------------------------------

\* the comparator with the raw-score tie-break turned round
RanksBeforeRawAscending(a, b) ==
    IF b.finalScore # a.finalScore THEN a.finalScore > b.finalScore
    ELSE IF b.rawScore # a.rawScore THEN a.rawScore < b.rawScore
    ELSE NameRank(a.displayName) < NameRank(b.displayName)

\* the comparator of candidates.sort: TRUE when a sorts strictly before b
RanksBefore(a, b) ==
    IF b.finalScore # a.finalScore THEN a.finalScore > b.finalScore
    ELSE IF b.rawScore # a.rawScore THEN a.rawScore > b.rawScore
    ELSE NameRank(a.displayName) < NameRank(b.displayName)

\* x put into an already sorted list, behind every entry it does not sort before
InsertCandidate(sorted, x) ==
    LET before == {i \in 1..Len(sorted) : RanksBefore(x, sorted[i])}
        at == IF before = {} THEN Len(sorted) + 1
              ELSE CHOOSE i \in before : \A j \in before : i <= j
    IN SubSeq(sorted, 1, at - 1) \o <<x>> \o SubSeq(sorted, at, Len(sorted))

RECURSIVE SortCandidates(_)
\* Array.prototype.sort with the comparator: a stable sort
SortCandidates(cands) ==
    IF cands = <<>> THEN <<>>
    ELSE LET front == SortCandidates(SubSeq(cands, 1, Len(cands) - 1))
         IN InsertCandidate(front, cands[Len(cands)])

\* the assignable users in the order the user search returns them
RosterOrder(assignable) == SelectSeq(AccountNames, LAMBDA a : a \in assignable)

RECURSIVE ScoreEntries(_, _, _)
\* candidates.push(candidateScore) for each roster entry that passes the
\* filter, in roster order
ScoreEntries(issue, entries, criteria) ==
    IF entries = <<>> THEN <<>>
    ELSE LET accountId == Head(entries) IN
         <<calculateCandidateScore(issue, accountId, RosterDisplayName(accountId),
                                   Profiles[accountId], Workloads[accountId], criteria)>>
             \o ScoreEntries(issue, Tail(entries), criteria)

buildCandidateScoresNoExclusion(issue, assignable, declinedSet, criteria) ==
    SortCandidates(ScoreEntries(issue, RosterOrder(assignable), criteria))

buildCandidateScoresProfiledOnly(issue, assignable, declinedSet, criteria) ==
    SortCandidates(ScoreEntries(issue,
        SelectSeq(RosterOrder(assignable),
                  LAMBDA a : ~Contains(declinedSet, a) /\ Profiles[a].present),
        criteria))

\* the candidates are scored first, then the list that was built is sorted
buildCandidateScores(issue, assignable, declinedSet, criteria) ==
    LET candidates == ScoreEntries(issue,
            SelectSeq(RosterOrder(assignable), LAMBDA a : ~Contains(declinedSet, a)),
            criteria)
    IN CHOOSE ranked \in {SortCandidates(built) : built \in {candidates}} : TRUE

\* ------------------------------------------------------------------------
\* State
\* ------------------------------------------------------------------------

VARIABLES
    store,      \* kvs bucket 'assignmentStates': issue key -> persisted state
    roster,     \* the project's assignable accounts as Jira reports them now
    issues,     \* issue keys with a processed issue in the 'issues' bucket
    call,       \* per invocation slot: position, options, locals, result, effects
    exhausted,  \* history: the last returned call ended declined-exhausted and
                \* the roster has not changed since
    rankerRun,  \* the last run of the ranker's sort on its own: input and output
    stateRun,   \* the last operation on the assignment state on its own
    scoreRun,   \* the last run of the scoring functions on their own
    kvs,        \* the five buckets of the cache by the keys they hold
    cacheRun    \* the last operation on the cache as a whole, and the
                \* single-issue scrapes that change events started

vars == <<store, roster, issues, call, exhausted, rankerRun, stateRun, scoreRun,
          kvs, cacheRun>>

Now == "now"

\* no entry for the key in the bucket
NoStored ==
    [exists |-> FALSE, currentAccountId |-> Null, declinedAccountIds |-> <<>>,
     lastUpdated |-> Null]

NoRankerRun == [input |-> <<>>, output |-> <<>>, sorted |-> FALSE]

NoCandidate ==
    [accountId |-> Null, displayName |-> Null, rawScore |-> 0, workloadPenalty |-> 0,
     finalScore |-> 0]

NoResult ==
    [status |-> "none", success |-> FALSE, hasAssignee |-> FALSE,
     assignee |-> NoCandidate, alternatives |-> <<>>, declined |-> <<>>,
     attemptErrors |-> <<>>]

EmptyState == [currentAccountId |-> Null, declinedAccountIds |-> <<>>, lastUpdated |-> Null]

\* no operation on the assignment state has run on its own
NoStateRun ==
    [op |-> "none", issueKey |-> Null, state |-> EmptyState,
     before |-> [k \in IssueKeys |-> NoStored], loaded |-> EmptyState,
     returnedNull |-> FALSE]

\* the scoring functions have not run on their own
NoScoreRun == [op |-> "none"]

\* a value passed as issue key: its JavaScript type and, for a string, its text
StringKey(text) == [type |-> "string", text |-> text]

\* no issue key passed at all
NoKey == [type |-> "undefined", text |-> ""]

\* values that are not an issue key: none, the empty string, a number
InvalidKeys == {NoKey, StringKey(""), [type |-> "number", text |-> "7"]}

IdleCall ==
    [pc |-> "idle", issueKey |-> Null, declinedAccountId |-> Null,
     skipAssignment |-> FALSE, commentOnAssignment |-> TRUE, commentOnDecline |-> TRUE,
     criteria |-> AllCriteria,
     state |-> EmptyState, updatedState |-> EmptyState,
     assignable |-> {}, candidateList |-> <<>>, workingCandidates |-> <<>>,
     errors |-> <<>>, temporaryExclusions |-> <<>>,
     bestCandidate |-> NoCandidate, finalCandidateList |-> <<>>,
     result |-> NoResult,
     storeBefore |-> NoStored, wasExhausted |-> FALSE, log |-> <<>>,
     issueCachedBefore |-> FALSE, postedAlternatives |-> <<>>,
     keyInput |-> NoKey,
     resolver |-> "none", payloadAccountId |-> NoKey,
     fetched |-> [k \in IssueKeys |-> NoStored]]

\* one observable effect of a call, in the order the call performs them
Event(type, accountId, ok) == [type |-> type, accountId |-> accountId, ok |-> ok]

\* ------------------------------------------------------------------------
\* Cache operations on the 'assignmentStates' bucket (src/src/cache.js)
\* ------------------------------------------------------------------------

\* the entry of the key in the bucket object, undefined when there is none
getIssueAssignmentState(bucket, issueKey) ==
    IF issueKey \in DOMAIN bucket THEN bucket[issueKey] ELSE NoStored

\* kvs.get, assign the entry, kvs.set
cacheIssueAssignmentState(bucket, issueKey, stateObject) ==
    [bucket EXCEPT ![issueKey] = stateObject]

\* kvs.get, delete the entry of the fetched copy; the copy is never written back
uncacheIssueAssignmentState(bucket, issueKey) ==
    LET assignmentStateCache == [bucket EXCEPT ![issueKey] = NoStored]
    IN bucket

\* ------------------------------------------------------------------------
\* Cache operations on all buckets (src/src/cache.js); a bucket is described
\* by whether kvs.get gives an object for it and by the keys of that object
\* ------------------------------------------------------------------------

BucketNames == {"issues", "users", "summaries", "assignmentStates", "workloads"}

\* kvs.get gives undefined
NoBucket == [defined |-> FALSE, keys |-> {}]

\* {}
EmptyBucket == [defined |-> TRUE, keys |-> {}]

\* storage after an installation or a reset: no bucket
NoCache == [b \in BucketNames |-> NoBucket]

NoCacheRun ==
    [op |-> "none", issueKey |-> Null, before |-> NoCache, scraped |-> FALSE,
     users |-> {}, issueKeys |-> {}, scraping |-> {}]

\* kvs.get, assign the entry, kvs.set; the assignment throws on a bucket that
\* is undefined and nothing is written
CacheEntry(cache, bucket, key) ==
    IF cache[bucket].defined
    THEN [cache EXCEPT ![bucket].keys = @ \cup {key}]
    ELSE cache

\* kvs.get of the three buckets and delete on the fetched copies; no copy is
\* written back
uncacheIssue(cache, issueKey) ==
    LET deleted == [b \in BucketNames |->
                       IF b \in {"issues", "summaries", "assignmentStates"}
                       THEN [cache[b] EXCEPT !.keys = @ \ {issueKey}]
                       ELSE cache[b]]
    IN cache

\* kvs.delete of the five buckets
resetCache(cache) == [b \in BucketNames |-> NoBucket]

\* the writes of a full project scrape: a profile and a workload per scraped
\* user, a processed issue per scraped issue
scrapeFullProject(cache, users, issueKeys) ==
    [b \in BucketNames |->
        IF ~cache[b].defined THEN cache[b]
        ELSE IF b \in {"users", "workloads"}
             THEN [cache[b] EXCEPT !.keys = @ \cup users]
        ELSE IF b = "issues"
             THEN [cache[b] EXCEPT !.keys = @ \cup issueKeys]
        ELSE cache[b]]

initialiseCacheWhenNoBucket(cache, users, issueKeys) ==
    IF \A b \in BucketNames : ~cache[b].defined
    THEN [kvs |-> scrapeFullProject([b \in BucketNames |-> EmptyBucket], users, issueKeys),
          scraped |-> TRUE]
    ELSE [kvs |-> cache, scraped |-> FALSE]

\* when one of the five buckets is undefined: every bucket is set to {} and
\* the project is scraped; else nothing
initialiseCache(cache, users, issueKeys) ==
    IF \E b \in BucketNames : ~cache[b].defined
    THEN [kvs |-> scrapeFullProject([b \in BucketNames |-> EmptyBucket], users, issueKeys),
          scraped |-> TRUE]
    ELSE [kvs |-> cache, scraped |-> FALSE]

\* ------------------------------------------------------------------------
\* Assignment state store (src/src/assignment/autoAssign.js)
\* ------------------------------------------------------------------------

loadAssignmentStateKeepingDuplicates(bucket, issueKey) ==
    LET stored == getIssueAssignmentState(bucket, issueKey)
    IN IF ~stored.exists THEN EmptyState
       ELSE [currentAccountId |-> stored.currentAccountId,
             declinedAccountIds |-> stored.declinedAccountIds,
             lastUpdated |-> stored.lastUpdated]

loadAssignmentState(bucket, issueKey) ==
    LET stored == getIssueAssignmentState(bucket, issueKey)
    IN IF ~stored.exists THEN EmptyState
       ELSE [currentAccountId |-> stored.currentAccountId,
             declinedAccountIds |-> SetFromArray(stored.declinedAccountIds),
             lastUpdated |-> stored.lastUpdated]

\* the promise of cache.getIssueAssignmentState read without await: an object,
\* hence truthy, with none of the properties of a stored state
PendingRead(bucket, issueKey) ==
    [exists |-> TRUE, isArray |-> FALSE, currentAccountId |-> Null,
     declinedAccountIds |-> <<>>, lastUpdated |-> Null]

\* the exported getAssignmentState: null on a value that is not an issue key or
\* on a falsy read, else the fields of what the read gave
getAssignmentState(bucket, issueKey) ==
    IF ~(issueKey.type = "string" /\ issueKey.text # "")
    THEN [isNull |-> TRUE, state |-> EmptyState]
    ELSE LET stored == PendingRead(bucket, issueKey.text)
         IN IF ~stored.exists
            THEN [isNull |-> TRUE, state |-> EmptyState]
            ELSE [isNull |-> FALSE,
                  state |-> [currentAccountId |-> stored.currentAccountId,
                             declinedAccountIds |->
                                 IF stored.isArray
                                 THEN SetFromArray(stored.declinedAccountIds)
                                 ELSE <<>>,
                             lastUpdated |-> stored.lastUpdated]]

persistAssignmentStateMergingDeclines(bucket, issueKey, state) ==
    cacheIssueAssignmentState(bucket, issueKey,
        [exists |-> TRUE,
         currentAccountId |-> state.currentAccountId,
         declinedAccountIds |->
             SetFromArray(getIssueAssignmentState(bucket, issueKey).declinedAccountIds
                              \o state.declinedAccountIds),
         lastUpdated |-> IF state.lastUpdated # Null THEN state.lastUpdated ELSE Now])

persistAssignmentStateWithoutDeclines(bucket, issueKey, state) ==
    cacheIssueAssignmentState(bucket, issueKey,
        [exists |-> TRUE,
         currentAccountId |-> state.currentAccountId,
         declinedAccountIds |-> <<>>,
         lastUpdated |-> IF state.lastUpdated # Null THEN state.lastUpdated ELSE Now])

persistAssignmentState(bucket, issueKey, state) ==
    cacheIssueAssignmentState(bucket, issueKey,
        [exists |-> TRUE,
         currentAccountId |-> state.currentAccountId,
         declinedAccountIds |-> state.declinedAccountIds,
         lastUpdated |-> IF state.lastUpdated # Null THEN state.lastUpdated ELSE Now])

clearAssignmentState(bucket, issueKey) == uncacheIssueAssignmentState(bucket, issueKey)

registerDeclineReplacing(state, declinedAccountId) ==
    [currentAccountId |-> Null,
     declinedAccountIds |-> IF declinedAccountId # Null THEN <<declinedAccountId>> ELSE <<>>,
     lastUpdated |-> Now]

registerDeclineKeepingCurrent(state, declinedAccountId) ==
    [currentAccountId |-> state.currentAccountId,
     declinedAccountIds |->
         IF declinedAccountId # Null
         THEN SetAdd(SetFromArray(state.declinedAccountIds), declinedAccountId)
         ELSE SetFromArray(state.declinedAccountIds),
     lastUpdated |-> Now]

registerDecline(state, declinedAccountId) ==
    [currentAccountId |-> Null,
     declinedAccountIds |->
         IF declinedAccountId # Null
         THEN SetAdd(SetFromArray(state.declinedAccountIds), declinedAccountId)
         ELSE SetFromArray(state.declinedAccountIds),
     lastUpdated |-> Now]

\* ------------------------------------------------------------------------
\* Decisions of the orchestrator and of the fallback loop
\* ------------------------------------------------------------------------

IsDeclinedExhaustedStrict(totalAssignable, declinedCount) ==
    totalAssignable > 0 /\ declinedCount > totalAssignable

\* the guard of the declined-exhausted return
IsDeclinedExhausted(totalAssignable, declinedCount) ==
    totalAssignable > 0 /\ declinedCount >= totalAssignable

SuccessStatusAlwaysAssigned(skipAssignment) == "assigned"

\* status of a call that reaches the final return
SuccessStatus(skipAssignment) ==
    IF skipAssignment THEN "recommendation-only" ELSE "assigned"

PushErrorOnce(errors, accountId) ==
    IF errors = <<>> THEN <<[accountId |-> accountId, message |-> "rejected"]>> ELSE errors

\* errors.push({accountId, message})
PushError(errors, accountId) ==
    Append(errors, [accountId |-> accountId, message |-> "rejected"])

ExclusionSetLastFailureOnly(baselineSet, temporaryExclusions) ==
    SetFromArray(baselineSet \o SliceFrom(temporaryExclusions, Len(temporaryExclusions) - 1))

ExclusionSetBaselineOnly(baselineSet, temporaryExclusions) == baselineSet

ExclusionSetFailuresOnly(baselineSet, temporaryExclusions) == temporaryExclusions

\* new Set([...baselineSet, ...temporaryExclusions])
ExclusionSet(baselineSet, temporaryExclusions) ==
    SetFromArray(baselineSet \o temporaryExclusions)

RecordFailureAsDecline(c, accountId) ==
    [c EXCEPT !.errors = PushError(c.errors, accountId),
              !.temporaryExclusions = SetAdd(c.temporaryExclusions, accountId),
              !.updatedState.declinedAccountIds = SetAdd(@, accountId)]

\* the catch block of the loop: the error is kept and the account is
\* excluded for the rest of this call
RecordFailure(c, accountId) ==
    [c EXCEPT !.errors = PushError(c.errors, accountId),
              !.temporaryExclusions = SetAdd(c.temporaryExclusions, accountId)]

\* scrapeSingleIssue: on success the processed issue is (re)cached
IssuesAfterScrape(cached, issueKey, ok) == IF ok THEN cached \cup {issueKey} ELSE cached

\* ------------------------------------------------------------------------
\* recommendAssignee, one action per stretch between its external calls
\* ------------------------------------------------------------------------

RefreshBeforeRankingAlways(skipAssignment) == TRUE

\* if (!skipAssignment) await scrapeOrchestrator.scrapeSingleIssue(issueKey)
RefreshBeforeRanking(skipAssignment) == ~skipAssignment

ensureProcessedIssueNoRetry(cached, issueKey, retryOk) ==
    [issues |-> cached,
     found |-> issueKey \in cached,
     events |-> <<Event("issue-read", Null, issueKey \in cached)>>]

\* the processed issue is read; when it is missing the issue is scraped once
\* and read again
ensureProcessedIssue(cached, issueKey, retryOk) ==
    IF issueKey \in cached
    THEN [issues |-> cached, found |-> TRUE,
          events |-> <<Event("issue-read", Null, TRUE)>>]
    ELSE LET after == IssuesAfterScrape(cached, issueKey, retryOk)
         IN [issues |-> after, found |-> issueKey \in after,
             events |-> <<Event("issue-read", Null, FALSE),
                          Event("refresh", Null, retryOk),
                          Event("issue-read", Null, issueKey \in after)>>]

LoopContinuesWhileSeveral(workingCandidates) == Len(workingCandidates) > 1

\* while (workingCandidates.length)
LoopContinues(workingCandidates) == workingCandidates # <<>>

AdoptAssigneeKeepingFirst(initialBest, assignee) == initialBest

\* bestCandidate = assignmentOutcome.assignee
AdoptAssignee(initialBest, assignee) == assignee

SummaryAlternativesUncapped(finalCandidateList) == SliceFrom(finalCandidateList, 1)

\* the alternatives the summary comment lists
SummaryAlternatives(finalCandidateList) ==
    Slice(finalCandidateList, 1, ALTERNATIVE_LIMIT + 1)

Finish(c, res) == [c EXCEPT !.pc = "done", !.result = res]

Logged(c, events) == [c EXCEPT !.log = c.log \o events]

ValidIssueKeyAnyString(issueKey) == issueKey.type = "string"

\* !(!issueKey || typeof issueKey !== 'string')
ValidIssueKey(issueKey) == issueKey.type = "string" /\ issueKey.text # ""

\* entry of recommendAssignee with its options bound: the issue key is
\* checked, the state is loaded and a supplied decline is registered in the
\* in-memory copy
InvokeFrom(p, entered, issueKey, options) ==
    LET state == loadAssignmentState(store, issueKey.text)
        updatedState ==
            IF options.declinedAccountId # Null
            THEN registerDecline(state, options.declinedAccountId)
            ELSE [state EXCEPT !.declinedAccountIds = SetFromArray(state.declinedAccountIds)]
        bound == [entered EXCEPT
                     !.keyInput = issueKey,
                     !.declinedAccountId = options.declinedAccountId,
                     !.skipAssignment = options.skipAssignment,
                     !.commentOnAssignment = options.commentOnAssignment,
                     !.commentOnDecline = options.commentOnDecline,
                     !.criteria = options.criteria]
    IN IF ~ValidIssueKey(issueKey)
       THEN call' = [call EXCEPT ![p] =
                        Finish(bound, [NoResult EXCEPT !.status = "threw"])]
       ELSE call' = [call EXCEPT ![p] =
               [bound EXCEPT
                   !.pc = "prepare",
                   !.issueKey = issueKey.text,
                   !.state = state,
                   !.updatedState = updatedState,
                   !.storeBefore = getIssueAssignmentState(store, issueKey.text),
                   !.issueCachedBefore = issueKey.text \in issues,
                   !.log = entered.log \o <<Event("load", Null, TRUE)>>]]

\* recommendAssignee called on its own
Invoke(p, issueKey, options) == InvokeFrom(p, IdleCall, issueKey, options)

\* the defaults of the options of recommendAssignee
DefaultOptions ==
    [declinedAccountId |-> Null, skipAssignment |-> FALSE,
     commentOnAssignment |-> TRUE, commentOnDecline |-> TRUE, criteria |-> AllCriteria]

\* a call that leaves the notification options and the criteria at their
\* defaults: both notifications enabled, no criteria
Call(p) ==
    /\ call[p].pc = "idle"
    /\ \E issueKey \in CallKeys,
          declinedAccountId \in Accounts \cup {Null},
          skipAssignment \in BOOLEAN :
        Invoke(p, StringKey(issueKey),
               [DefaultOptions EXCEPT !.declinedAccountId = declinedAccountId,
                                      !.skipAssignment = skipAssignment])
    /\ UNCHANGED <<store, roster, issues, exhausted, rankerRun, stateRun, scoreRun, kvs, cacheRun>>

\* a call with the default options and any value as issue key
CallAnyKey(p) ==
    /\ call[p].pc = "idle"
    /\ \E issueKey \in {StringKey(k) : k \in CallKeys} \cup InvalidKeys,
          declinedAccountId \in Accounts \cup {Null},
          skipAssignment \in BOOLEAN :
        Invoke(p, issueKey,
               [DefaultOptions EXCEPT !.declinedAccountId = declinedAccountId,
                                      !.skipAssignment = skipAssignment])
    /\ UNCHANGED <<store, roster, issues, exhausted, rankerRun, stateRun, scoreRun, kvs, cacheRun>>

\* a call with any options
CallWithOptions(p) ==
    /\ call[p].pc = "idle"
    /\ \E issueKey \in CallKeys,
          options \in [declinedAccountId : Accounts \cup {Null},
                       skipAssignment : BOOLEAN,
                       commentOnAssignment : BOOLEAN,
                       commentOnDecline : BOOLEAN,
                       criteria : CriteriaValues] :
        Invoke(p, StringKey(issueKey), options)
    /\ UNCHANGED <<store, roster, issues, exhausted, rankerRun, stateRun, scoreRun, kvs, cacheRun>>

\* !(!declinedAccountId || typeof declinedAccountId !== 'string')
ValidAccountId(accountId) == accountId.type = "string" /\ accountId.text # ""

\* the values a request carries as payload.accountId
PayloadAccountIds == {StringKey(a) : a \in Accounts} \cup InvalidKeys

DeclineOptionsCommitting(declinedAccountId) ==
    [DefaultOptions EXCEPT !.declinedAccountId = declinedAccountId,
                           !.skipAssignment = FALSE,
                           !.commentOnAssignment = FALSE,
                           !.commentOnDecline = TRUE]

\* the options the decline resolver passes to recommendAssignee
DeclineOptions(declinedAccountId) ==
    [DefaultOptions EXCEPT !.declinedAccountId = declinedAccountId,
                           !.skipAssignment = TRUE,
                           !.commentOnAssignment = FALSE,
                           !.commentOnDecline = TRUE]

\* the declineAssignment resolver up to its call of recommendAssignee: the
\* account id of the payload is checked, the assignee of the issue is set to
\* null with a write whose response is not looked at, and recommendAssignee is
\* entered as a preview with the decline; the steps of recommendAssignee follow
DeclineAssignment(p) ==
    /\ call[p].pc = "idle"
    /\ \E issueKey \in CallKeys, accountId \in PayloadAccountIds, unassignOk \in BOOLEAN :
        LET entered == [IdleCall EXCEPT
                           !.resolver = "declineAssignment",
                           !.payloadAccountId = accountId,
                           !.issueKey = issueKey,
                           !.storeBefore = getIssueAssignmentState(store, issueKey)]
        IN IF ~ValidAccountId(accountId)
           THEN call' = [call EXCEPT ![p] =
                            Finish(entered, [NoResult EXCEPT !.status = "threw"])]
           ELSE InvokeFrom(p, Logged(entered, <<Event("unassign", Null, unassignOk)>>),
                           StringKey(issueKey), DeclineOptions(accountId.text))
    /\ UNCHANGED <<store, roster, issues, exhausted, rankerRun, stateRun, scoreRun, kvs, cacheRun>>

\* decline acknowledgement, the data refresh of a committing call, and
\* ensureProcessedIssue; the call throws when the issue stays unavailable
Prepare(p) ==
    LET c == call[p] IN
    /\ c.pc = "prepare"
    /\ \E refreshOk \in BOOLEAN, retryOk \in BOOLEAN :
        LET declineEvents ==
                IF c.declinedAccountId # Null /\ c.commentOnDecline
                THEN <<Event("decline-comment", c.declinedAccountId, TRUE)>>
                ELSE <<>>
            refreshEvents ==
                IF RefreshBeforeRanking(c.skipAssignment)
                THEN <<Event("refresh", Null, refreshOk)>> ELSE <<>>
            afterRefresh ==
                IF RefreshBeforeRanking(c.skipAssignment)
                THEN IssuesAfterScrape(issues, c.issueKey, refreshOk)
                ELSE issues
            ensured == ensureProcessedIssue(afterRefresh, c.issueKey, retryOk)
            logged == Logged(c, declineEvents \o refreshEvents \o ensured.events)
        IN /\ issues' = ensured.issues
           /\ IF ensured.found
              THEN call' = [call EXCEPT ![p] = [logged EXCEPT !.pc = "rank"]]
              ELSE call' = [call EXCEPT ![p] =
                               Finish(logged, [NoResult EXCEPT !.status = "threw"])]
           /\ exhausted' = IF ensured.found THEN exhausted ELSE FALSE
    /\ UNCHANGED <<store, roster, rankerRun, stateRun, scoreRun, kvs, cacheRun>>

\* roster read, ranking and the empty-list disambiguation
Rank(p) ==
    LET c == call[p]
        assignableSource == roster
        candidateList == buildCandidateScores(ProcessedIssue, assignableSource,
                                              c.updatedState.declinedAccountIds, c.criteria)
        totalAssignable == Cardinality(assignableSource)
        declinedCount == Len(c.updatedState.declinedAccountIds)
        declined == ArrayFromSet(c.updatedState.declinedAccountIds)
        ranked == [Logged(c, <<Event("roster", Null, TRUE)>>) EXCEPT
                      !.assignable = assignableSource,
                      !.candidateList = candidateList,
                      !.wasExhausted = exhausted]
    IN
    /\ c.pc = "rank"
    /\ IF candidateList = <<>>
       THEN IF IsDeclinedExhausted(totalAssignable, declinedCount)
            THEN /\ call' = [call EXCEPT ![p] =
                        Finish(ranked, [NoResult EXCEPT !.status = "declined-exhausted",
                                                        !.declined = declined])]
                 /\ exhausted' = TRUE
                 /\ UNCHANGED store
            ELSE /\ store' = clearAssignmentState(store, c.issueKey)
                 /\ call' = [call EXCEPT ![p] =
                        Finish(Logged(ranked, <<Event("clear", Null, TRUE)>>),
                               [NoResult EXCEPT !.status = "no-candidate-found",
                                                !.declined = declined])]
                 /\ exhausted' = FALSE
       ELSE /\ call' = [call EXCEPT ![p] =
                   [ranked EXCEPT
                       !.pc = IF c.skipAssignment THEN "persist" ELSE "attempt",
                       !.bestCandidate = candidateList[1],
                       !.finalCandidateList = candidateList,
                       !.workingCandidates = candidateList]]
            /\ UNCHANGED <<store, exhausted>>
    /\ UNCHANGED <<roster, issues, rankerRun, stateRun, scoreRun, kvs, cacheRun>>

\* head of the fallback loop: the loop test, workingCandidates.shift(), the
\* assignment write and, after a successful write, the post-write refresh
Attempt(p) ==
    LET c == call[p] IN
    /\ c.pc = "attempt"
    /\ IF ~LoopContinues(c.workingCandidates)
       THEN /\ call' = [call EXCEPT ![p] =
                   Finish(c, [NoResult EXCEPT
                                 !.status = "assignment-failed",
                                 !.declined = ArrayFromSet(c.updatedState.declinedAccountIds),
                                 !.attemptErrors = c.errors])]
            /\ exhausted' = FALSE
            /\ UNCHANGED issues
       ELSE LET candidate == Head(c.workingCandidates)
                rest == Tail(c.workingCandidates)
            IN \E writeOk \in BOOLEAN, refreshOk \in BOOLEAN :
                 IF writeOk
                 THEN /\ call' = [call EXCEPT ![p] =
                             [Logged(c, <<Event("write", candidate.accountId, TRUE),
                                          Event("refresh", Null, TRUE)>>) EXCEPT
                                 !.pc = "persist",
                                 !.workingCandidates = rest,
                                 !.bestCandidate = AdoptAssignee(c.bestCandidate, candidate),
                                 !.finalCandidateList = <<candidate>> \o rest]]
                      /\ issues' = IssuesAfterScrape(issues, c.issueKey, refreshOk)
                      /\ UNCHANGED exhausted
                 ELSE /\ call' = [call EXCEPT ![p] =
                             [RecordFailure(
                                  Logged(c, <<Event("write", candidate.accountId, FALSE)>>),
                                  candidate.accountId) EXCEPT
                                 !.pc = "refetch",
                                 !.workingCandidates = rest]]
                      /\ UNCHANGED <<issues, exhausted>>
    /\ UNCHANGED <<store, roster, rankerRun, stateRun, scoreRun, kvs, cacheRun>>

\* after a rejected write: the roster is read again and the queue recomputed;
\* this ranking is called without the caller's criteria
Refetch(p) ==
    LET c == call[p]
        baselineSet == SetFromArray(c.updatedState.declinedAccountIds)
    IN
    /\ c.pc = "refetch"
    /\ call' = [call EXCEPT ![p] =
           [Logged(c, <<Event("roster", Null, TRUE)>>) EXCEPT
               !.pc = "attempt",
               !.workingCandidates =
                   buildCandidateScores(ProcessedIssue, roster,
                                        ExclusionSet(baselineSet, c.temporaryExclusions),
                                        AllCriteria)]]
    /\ UNCHANGED <<store, roster, issues, exhausted, rankerRun, stateRun, scoreRun, kvs, cacheRun>>

\* persist the state, post the summary of a committing call, return
Persist(p) ==
    LET c == call[p]
        declined == ArrayFromSet(c.updatedState.declinedAccountIds)
        posts == ~c.skipAssignment /\ c.commentOnAssignment
        alternatives == SummaryAlternatives(c.finalCandidateList)
        summaryEvents ==
            IF posts
            THEN <<Event("summary-comment", c.bestCandidate.accountId, TRUE)>>
            ELSE <<>>
    IN
    /\ c.pc = "persist"
    /\ store' = persistAssignmentState(store, c.issueKey,
                    [currentAccountId |-> c.bestCandidate.accountId,
                     declinedAccountIds |-> declined,
                     lastUpdated |-> Now])
    /\ call' = [call EXCEPT ![p] =
           Finish([Logged(c, <<Event("persist", c.bestCandidate.accountId, TRUE)>>
                                 \o summaryEvents) EXCEPT
                      !.postedAlternatives =
                          IF posts THEN [i \in 1..Len(alternatives) |->
                                            alternatives[i].accountId]
                          ELSE <<>>],
                  [status |-> SuccessStatus(c.skipAssignment),
                   success |-> TRUE,
                   hasAssignee |-> TRUE,
                   assignee |-> c.bestCandidate,
                   alternatives |-> SliceFrom(c.finalCandidateList, 1),
                   declined |-> declined,
                   attemptErrors |-> c.errors])]
    /\ exhausted' = FALSE
    /\ UNCHANGED <<roster, issues, rankerRun, stateRun, scoreRun, kvs, cacheRun>>

\* first half of cacheIssueAssignmentState within persistAssignmentState:
\* kvs.get hands the call its copy of the whole bucket
PersistGet(p) ==
    LET c == call[p] IN
    /\ c.pc = "persist"
    /\ call' = [call EXCEPT ![p] = [c EXCEPT !.pc = "set", !.fetched = store]]
    /\ UNCHANGED <<store, roster, issues, exhausted, rankerRun, stateRun, scoreRun,
                   kvs, cacheRun>>

\* second half: the entry of the key is assigned in the copy and kvs.set
\* writes the copy as the bucket; then the summary is posted and the call
\* returns as in Persist
PersistSet(p) ==
    LET c == call[p]
        declined == ArrayFromSet(c.updatedState.declinedAccountIds)
        posts == ~c.skipAssignment /\ c.commentOnAssignment
        alternatives == SummaryAlternatives(c.finalCandidateList)
        summaryEvents ==
            IF posts
            THEN <<Event("summary-comment", c.bestCandidate.accountId, TRUE)>>
            ELSE <<>>
    IN
    /\ c.pc = "set"
    /\ store' = persistAssignmentState(c.fetched, c.issueKey,
                    [currentAccountId |-> c.bestCandidate.accountId,
                     declinedAccountIds |-> declined,
                     lastUpdated |-> Now])
    /\ call' = [call EXCEPT ![p] =
           Finish([Logged(c, <<Event("persist", c.bestCandidate.accountId, TRUE)>>
                                 \o summaryEvents) EXCEPT
                      !.postedAlternatives =
                          IF posts THEN [i \in 1..Len(alternatives) |->
                                            alternatives[i].accountId]
                          ELSE <<>>],
                  [status |-> SuccessStatus(c.skipAssignment),
                   success |-> TRUE,
                   hasAssignee |-> TRUE,
                   assignee |-> c.bestCandidate,
                   alternatives |-> SliceFrom(c.finalCandidateList, 1),
                   declined |-> declined,
                   attemptErrors |-> c.errors])]
    /\ exhausted' = FALSE
    /\ UNCHANGED <<roster, issues, rankerRun, stateRun, scoreRun, kvs, cacheRun>>

\* the issue an invocation slot works on when every slot has its own issue
IssueOf(p) == IF p = 1 THEN "PROJ-1" ELSE "PROJ-2"

\* a call with the default options for the issue of the slot
CallForIssue(p) ==
    /\ call[p].pc = "idle"
    /\ \E declinedAccountId \in Accounts \cup {Null}, skipAssignment \in BOOLEAN :
        Invoke(p, StringKey(IssueOf(p)),
               [DefaultOptions EXCEPT !.declinedAccountId = declinedAccountId,
                                      !.skipAssignment = skipAssignment])
    /\ UNCHANGED <<store, roster, issues, exhausted, rankerRun, stateRun, scoreRun,
                   kvs, cacheRun>>

\* the caller has received the outcome; the invocation slot is free again
Return(p) ==
    /\ call[p].pc = "done"
    /\ call' = [call EXCEPT ![p] = IdleCall]
    /\ UNCHANGED <<store, roster, issues, exhausted, rankerRun, stateRun, scoreRun, kvs, cacheRun>>

\* the assignable-user search of the project starts returning another roster
RosterChange ==
    /\ \A p \in Procs : call[p].pc \in {"idle", "rank", "refetch"}
    /\ \E r \in RosterValues \ {roster} : roster' = r
    /\ exhausted' = FALSE
    /\ UNCHANGED <<store, issues, call, rankerRun, stateRun, scoreRun, kvs, cacheRun>>

\* ------------------------------------------------------------------------
\* Specification: sequential calls of one invocation slot, made with the
\* default options, while the roster of the project changes
\* ------------------------------------------------------------------------

Init ==
    /\ store = [k \in IssueKeys |-> NoStored]
    /\ roster \in RosterValues
    /\ issues \in {{}, CallKeys}
    /\ call = [p \in Procs |-> IdleCall]
    /\ exhausted = FALSE
    /\ rankerRun = NoRankerRun
    /\ stateRun = NoStateRun
    /\ kvs = NoCache
    /\ cacheRun = NoCacheRun
    /\ scoreRun = NoScoreRun

Next ==
    \/ Call(1)
    \/ Prepare(1)
    \/ Rank(1)
    \/ Attempt(1)
    \/ Refetch(1)
    \/ Persist(1)
    \/ Return(1)
    \/ RosterChange

Spec == Init /\ [][Next]_vars

\* ------------------------------------------------------------------------
\* Specification: sequential calls with any options over a roster that stays
\* as it is, the roster of every account of the project among them
\* ------------------------------------------------------------------------

WideRoster == AllAccounts

\* the rosters of these calls: nobody, one account, the accounts that take
\* part, every account of the project
WideRosters == {{}, {AccountNames[1]}, Accounts, WideRoster}

WideInit ==
    /\ store = [k \in IssueKeys |-> NoStored]
    /\ roster \in WideRosters
    /\ issues \in {{}, CallKeys}
    /\ call = [p \in Procs |-> IdleCall]
    /\ exhausted = FALSE
    /\ rankerRun = NoRankerRun
    /\ stateRun = NoStateRun
    /\ kvs = NoCache
    /\ cacheRun = NoCacheRun
    /\ scoreRun = NoScoreRun

WideNext ==
    \/ CallWithOptions(1)
    \/ Prepare(1)
    \/ Rank(1)
    \/ Attempt(1)
    \/ Refetch(1)
    \/ Persist(1)
    \/ Return(1)

WideSpec == WideInit /\ [][WideNext]_vars

\* ------------------------------------------------------------------------
\* Specification: sequential calls with the default options and any value
\* as issue key, over the roster of the accounts that take part
\* ------------------------------------------------------------------------

KeyInit ==
    /\ store = [k \in IssueKeys |-> NoStored]
    /\ roster = Accounts
    /\ issues \in {{}, CallKeys}
    /\ call = [p \in Procs |-> IdleCall]
    /\ exhausted = FALSE
    /\ rankerRun = NoRankerRun
    /\ stateRun = NoStateRun
    /\ kvs = NoCache
    /\ cacheRun = NoCacheRun
    /\ scoreRun = NoScoreRun

KeyNext ==
    \/ CallAnyKey(1)
    \/ Prepare(1)
    \/ Rank(1)
    \/ Attempt(1)
    \/ Refetch(1)
    \/ Persist(1)
    \/ Return(1)

KeySpec == KeyInit /\ [][KeyNext]_vars

\* ------------------------------------------------------------------------
\* Specification: two invocations for the same issue running concurrently,
\* one call each; every await of a call is a point where the other may run
\* ------------------------------------------------------------------------

RaceInit ==
    /\ store = [k \in IssueKeys |-> NoStored]
    /\ roster = Accounts
    /\ issues = CallKeys
    /\ call = [p \in Procs |-> IdleCall]
    /\ exhausted = FALSE
    /\ rankerRun = NoRankerRun
    /\ stateRun = NoStateRun
    /\ kvs = NoCache
    /\ cacheRun = NoCacheRun
    /\ scoreRun = NoScoreRun

RaceNext ==
    \E p \in Procs :
        \/ Call(p)
        \/ Prepare(p)
        \/ Rank(p)
        \/ Attempt(p)
        \/ Refetch(p)
        \/ Persist(p)

RaceSpec == RaceInit /\ [][RaceNext]_vars

\* ------------------------------------------------------------------------
\* Specification: the operations on the assignment state of an issue on
\* their own: persist, load and clear, each followed by a load of the key
\* ------------------------------------------------------------------------

\* declined lists handed to persistAssignmentState: empty, one or two
\* accounts in either order, and lists naming an account twice
DeclinedArrays ==
    {<<>>, <<AccountNames[1]>>, <<AccountNames[1], AccountNames[2]>>,
     <<AccountNames[2], AccountNames[1]>>, <<AccountNames[1], AccountNames[1]>>,
     <<AccountNames[2], AccountNames[1], AccountNames[2]>>}

\* states handed to persistAssignmentState
PersistInputs ==
    [currentAccountId : {Null, AccountNames[1], AccountNames[2]},
     declinedAccountIds : DeclinedArrays,
     lastUpdated : {Null, "earlier"}]

\* the state of another issue, stored before the operations run
OtherStored ==
    [exists |-> TRUE, currentAccountId |-> AccountNames[2],
     declinedAccountIds |-> <<AccountNames[1]>>, lastUpdated |-> "earlier"]

PersistState ==
    \E state \in PersistInputs, issueKey \in CallKeys :
        /\ store' = persistAssignmentState(store, issueKey, state)
        /\ stateRun' = [op |-> "persist", issueKey |-> issueKey, state |-> state,
                        before |-> store,
                        loaded |-> loadAssignmentState(store', issueKey),
                        returnedNull |-> FALSE]
        /\ UNCHANGED <<roster, issues, call, exhausted, rankerRun, scoreRun, kvs, cacheRun>>

LoadState ==
    \E issueKey \in IssueKeys :
        /\ stateRun' = [op |-> "load", issueKey |-> issueKey, state |-> EmptyState,
                        before |-> store,
                        loaded |-> loadAssignmentState(store, issueKey),
                        returnedNull |-> FALSE]
        /\ UNCHANGED <<store, roster, issues, call, exhausted, rankerRun, scoreRun, kvs, cacheRun>>

\* the exported clearAssignmentState: nothing on a value that is not an issue
\* key, else the entry of the key is removed
ClearState ==
    \E issueKey \in {StringKey(k) : k \in IssueKeys} \cup InvalidKeys :
        /\ store' = IF ValidIssueKey(issueKey)
                     THEN clearAssignmentState(store, issueKey.text)
                     ELSE store
        /\ stateRun' = [op |-> "clear", issueKey |-> issueKey.text, state |-> EmptyState,
                        before |-> store,
                        loaded |-> loadAssignmentState(store', issueKey.text),
                        returnedNull |-> FALSE]
        /\ UNCHANGED <<roster, issues, call, exhausted, rankerRun, scoreRun, kvs, cacheRun>>

\* the state of an issue asked for through getAssignmentState
GetState ==
    \E issueKey \in {StringKey(k) : k \in IssueKeys} \cup InvalidKeys :
        LET got == getAssignmentState(store, issueKey)
        IN /\ stateRun' = [op |-> "get", issueKey |-> issueKey.text, state |-> EmptyState,
                           before |-> store, loaded |-> got.state,
                           returnedNull |-> got.isNull]
           /\ UNCHANGED <<store, roster, issues, call, exhausted, rankerRun, scoreRun, kvs, cacheRun>>

StoreInit ==
    /\ store \in {[k \in IssueKeys |-> NoStored],
                  [k \in IssueKeys |-> IF k \in CallKeys THEN NoStored ELSE OtherStored]}
    /\ roster = {}
    /\ issues = {}
    /\ call = [p \in Procs |-> IdleCall]
    /\ exhausted = FALSE
    /\ rankerRun = NoRankerRun
    /\ stateRun = NoStateRun
    /\ kvs = NoCache
    /\ cacheRun = NoCacheRun
    /\ scoreRun = NoScoreRun

StoreNext ==
    \/ PersistState
    \/ LoadState
    \/ ClearState
    \/ GetState

StoreSpec == StoreInit /\ [][StoreNext]_vars

\* ------------------------------------------------------------------------
\* Specification: recommendations and declines of one issue made one after
\* the other through the resolvers, over a roster that stays as it is
\* ------------------------------------------------------------------------

DeclineInit == Init

DeclineNext ==
    \/ Call(1)
    \/ DeclineAssignment(1)
    \/ Prepare(1)
    \/ Rank(1)
    \/ Attempt(1)
    \/ Refetch(1)
    \/ Persist(1)
    \/ Return(1)

DeclineSpec == DeclineInit /\ [][DeclineNext]_vars

\* ------------------------------------------------------------------------
\* Specification: two invocations at a time, each for an issue of its own,
\* interleaving at the read and at the write of the bucket of the states
\* ------------------------------------------------------------------------

KeysInit ==
    /\ store \in {[k \in IssueKeys |-> NoStored], [k \in IssueKeys |-> OtherStored]}
    /\ roster = Accounts
    /\ issues = IssueKeys
    /\ call = [p \in Procs |-> IdleCall]
    /\ exhausted = FALSE
    /\ rankerRun = NoRankerRun
    /\ stateRun = NoStateRun
    /\ scoreRun = NoScoreRun
    /\ kvs = NoCache
    /\ cacheRun = NoCacheRun

KeysNext ==
    \E p \in Procs :
        \/ CallForIssue(p)
        \/ Prepare(p)
        \/ Rank(p)
        \/ Attempt(p)
        \/ Refetch(p)
        \/ PersistGet(p)
        \/ PersistSet(p)

KeysSpec == KeysInit /\ [][KeysNext]_vars

\* ------------------------------------------------------------------------
\* Specification: the operations of the cache on its buckets, from any
\* storage: buckets missing, empty or holding entries
\* ------------------------------------------------------------------------

\* what a scrape of the project finds: its users and its issues
ScrapedUsers == {{}, {AccountNames[1], AccountNames[2]}}
ScrapedIssues == SUBSET IssueKeys

\* the contents of a bucket at the start
BucketValues(b) ==
    {NoBucket, EmptyBucket,
     [defined |-> TRUE,
      keys |-> IF b \in {"users", "workloads"} THEN {AccountNames[1]} ELSE {"PROJ-1"}]}

CacheRan(op, issueKey) ==
    [NoCacheRun EXCEPT !.op = op, !.issueKey = issueKey, !.before = kvs,
                       !.scraping = cacheRun.scraping]

InitialiseCache ==
    \E users \in ScrapedUsers, issueKeys \in ScrapedIssues :
        LET initialised == initialiseCache(kvs, users, issueKeys)
        IN /\ kvs' = initialised.kvs
           /\ cacheRun' = [CacheRan("initialiseCache", Null) EXCEPT
                              !.scraped = initialised.scraped,
                              !.users = users,
                              !.issueKeys = issueKeys]
           /\ UNCHANGED <<store, roster, issues, call, exhausted, rankerRun, stateRun,
                          scoreRun>>

ResetCache ==
    /\ kvs' = resetCache(kvs)
    /\ cacheRun' = CacheRan("resetCache", Null)
    /\ UNCHANGED <<store, roster, issues, call, exhausted, rankerRun, stateRun, scoreRun>>

\* cacheIssueSummary or cacheIssueAssignmentState of an issue
CacheForIssue ==
    \E issueKey \in IssueKeys, bucket \in {"summaries", "assignmentStates"} :
        /\ kvs' = CacheEntry(kvs, bucket, issueKey)
        /\ cacheRun' = CacheRan("cache", issueKey)
        /\ UNCHANGED <<store, roster, issues, call, exhausted, rankerRun, stateRun,
                       scoreRun>>

UncacheIssue ==
    \E issueKey \in IssueKeys :
        /\ kvs' = uncacheIssue(kvs, issueKey)
        /\ cacheRun' = CacheRan("uncacheIssue", issueKey)
        /\ UNCHANGED <<store, roster, issues, call, exhausted, rankerRun, stateRun,
                       scoreRun>>

\* a change event of an issue: a deleted issue is uncached, any other change
\* starts a scrape of the issue that the handler does not wait for
CacheIssueChange ==
    \E issueKey \in IssueKeys, deleted \in BOOLEAN :
        /\ kvs' = IF deleted THEN uncacheIssue(kvs, issueKey) ELSE kvs
        /\ cacheRun' = IF deleted
                        THEN CacheRan("deleted", issueKey)
                        ELSE [CacheRan("changed", issueKey) EXCEPT
                                 !.scraping = @ \cup {issueKey}]
        /\ UNCHANGED <<store, roster, issues, call, exhausted, rankerRun, stateRun,
                       scoreRun>>

\* a scrape started by a change event comes to its end: the processed issue
\* is cached unless the issue could not be fetched
ScrapeCompletes ==
    \E issueKey \in cacheRun.scraping, fetched \in BOOLEAN :
        /\ kvs' = IF fetched THEN CacheEntry(kvs, "issues", issueKey) ELSE kvs
        /\ cacheRun' = [CacheRan("scrapeSingleIssue", issueKey) EXCEPT
                           !.scraping = @ \ {issueKey}]
        /\ UNCHANGED <<store, roster, issues, call, exhausted, rankerRun, stateRun,
                       scoreRun>>

CacheInit ==
    /\ store = [k \in IssueKeys |-> NoStored]
    /\ roster = {}
    /\ issues = {}
    /\ call = [p \in Procs |-> IdleCall]
    /\ exhausted = FALSE
    /\ rankerRun = NoRankerRun
    /\ stateRun = NoStateRun
    /\ scoreRun = NoScoreRun
    /\ kvs \in {cache \in [BucketNames -> UNION {BucketValues(b) : b \in BucketNames}] :
                    \A b \in BucketNames : cache[b] \in BucketValues(b)}
    /\ cacheRun = NoCacheRun

CacheNext ==
    \/ InitialiseCache
    \/ ResetCache
    \/ CacheForIssue
    \/ UncacheIssue
    \/ CacheIssueChange
    \/ ScrapeCompletes

CacheSpec == CacheInit /\ [][CacheNext]_vars

\* ------------------------------------------------------------------------
\* Specification: one call with the default options while the roster changes;
\* a call that awaits a write or a roster read is resumed when the promise
\* settles, so the steps of the fallback loop are weakly fair
\* ------------------------------------------------------------------------

FallbackInit ==
    /\ store = [k \in IssueKeys |-> NoStored]
    /\ roster \in RosterValues
    /\ issues = CallKeys
    /\ call = [p \in Procs |-> IdleCall]
    /\ exhausted = FALSE
    /\ rankerRun = NoRankerRun
    /\ stateRun = NoStateRun
    /\ kvs = NoCache
    /\ cacheRun = NoCacheRun
    /\ scoreRun = NoScoreRun

FallbackNext ==
    \/ Call(1)
    \/ Prepare(1)
    \/ Rank(1)
    \/ Attempt(1)
    \/ Refetch(1)
    \/ Persist(1)
    \/ RosterChange

FallbackSpec ==
    /\ FallbackInit
    /\ [][FallbackNext]_vars
    /\ WF_vars(Attempt(1))
    /\ WF_vars(Refetch(1))

\* ------------------------------------------------------------------------
\* Specification: the score calculator and the workload penalty applied to
\* inputs of every shape, well formed or not
\* ------------------------------------------------------------------------

\* the candidate that is scored
ScoredAccount == AccountNames[1]

\* counts as the cached maps can hold them
RawCounts == {Num(3), Num(0), Num(-2), NotNumeric, Undefined}

\* profiles: none, or one whose label count is any raw count and whose other
\* matches are all there or all malformed
ScoreProfiles ==
    {NoProfile} \cup
    {[NoProfile EXCEPT !.present = TRUE,
                       !.labels = << <<"frontend", labelCount>> >>,
                       !.components = << <<"api", IF rest THEN Num(2) ELSE NotNumeric>> >>,
                       !.issueTypes = << <<"Bug", IF rest THEN Num(1) ELSE Num(0)>> >>,
                       !.epics = << <<"EPIC-1", IF rest THEN Num(1) ELSE Num(-2)>> >>,
                       !.parents = IF rest THEN << <<"PROJ-0", Num(4)>> >> ELSE <<>>,
                       !.assignedIssues = IF rest THEN 2 ELSE 0,
                       !.worklogIssues = IF rest THEN 1 ELSE 0,
                       !.commentedIssues = IF rest THEN 3 ELSE 0] :
        labelCount \in RawCounts, rest \in BOOLEAN}

\* worklog entries of the candidate on the issue: none, or time and log count
WorklogEntries ==
    {<<>>} \cup
    {<<[accountId |-> ScoredAccount, hours |-> e[1], logCount |-> e[2]]>> :
        e \in {<<Num(1), Num(1)>>, <<Num(0), Num(0)>>, <<NotNumeric, NotNumeric>>,
               <<Num(-1), Num(0)>>, <<Num(0), Num(-3)>>}}

\* comment entries of the candidate on the issue: none, or a comment count
CommentEntries ==
    {<<>>} \cup
    {<<[accountId |-> ScoredAccount, commentCount |-> n]>> :
        n \in {Num(2), Num(0), NotNumeric, Num(-1), Num(-3)}}

\* issues the calculator is applied to
ScoreIssues ==
    {[ProcessedIssue EXCEPT !.historicalAssignees = h, !.worklogContributors = w,
                            !.commentContributors = c] :
        h \in {<<>>, <<ScoredAccount>>}, w \in WorklogEntries, c \in CommentEntries}

\* a workload that is a string and no object
StringWorkload ==
    [present |-> TRUE, object |-> FALSE, totalIssues |-> Undefined,
     estimateHours |-> Undefined]

\* workloads handed to the calculator and to the penalty on its own
ScoreWorkloads == {NoWorkload, Workload(Num(5), Num(4)), Workload(Num(-5), Num(0))}

PenaltyWorkloads ==
    ScoreWorkloads \cup {StringWorkload, Workload(NotNumeric, Undefined),
                         Workload(Num(0), Num(-4)), Workload(Num(2), Num(0))}

\* criteria: none, every flag on, every flag off, one flag off
ScoreCriteria ==
    {NullCriteria, CriteriaWith(CriteriaFlags), CriteriaWith({})}
        \cup {CriteriaWith(CriteriaFlags \ {f}) : f \in CriteriaFlags}

PenaltyCriteria ==
    {NullCriteria, CriteriaWith(CriteriaFlags), CriteriaWith({}),
     CriteriaWith(CriteriaFlags \ {"workloadOpenIssues"}),
     CriteriaWith(CriteriaFlags \ {"workloadEstimateHours"})}

\* the result fields before the functions have run
NoScore ==
    [accountId |-> Null, displayName |-> Null, rawScore |-> 0,
     rawScoreKind |-> "finite", workloadPenalty |-> 0, finalScore |-> 0,
     finalScoreKind |-> "finite", evidence |-> {}]

\* calculateCandidateScore applied to the input that was drawn
ScoreRun ==
    /\ scoreRun.op = "none"
    /\ scoreRun.target = "score"
    /\ scoreRun' = [scoreRun EXCEPT
           !.op = "score",
           !.result = calculateCandidateScore(scoreRun.issue, ScoredAccount, "Alice",
                          scoreRun.profile, scoreRun.workload, scoreRun.criteria)]
    /\ UNCHANGED <<store, roster, issues, call, exhausted, rankerRun, stateRun, kvs, cacheRun>>

\* calculateWorkloadPenalty applied to the input that was drawn
PenaltyRun ==
    /\ scoreRun.op = "none"
    /\ scoreRun.target = "penalty"
    /\ scoreRun' = [scoreRun EXCEPT
           !.op = "penalty",
           !.result = [NoScore EXCEPT !.workloadPenalty =
                          calculateWorkloadPenalty(scoreRun.workload, scoreRun.criteria)]]
    /\ UNCHANGED <<store, roster, issues, call, exhausted, rankerRun, stateRun, kvs, cacheRun>>

ScoreInit ==
    /\ store = [k \in IssueKeys |-> NoStored]
    /\ roster = {}
    /\ issues = {}
    /\ call = [p \in Procs |-> IdleCall]
    /\ exhausted = FALSE
    /\ rankerRun = NoRankerRun
    /\ stateRun = NoStateRun
    /\ kvs = NoCache
    /\ cacheRun = NoCacheRun
    /\ \/ \E issue \in ScoreIssues, profile \in ScoreProfiles,
             workload \in ScoreWorkloads, criteria \in ScoreCriteria :
              scoreRun = [op |-> "none", target |-> "score", issue |-> issue,
                          profile |-> profile, workload |-> workload,
                          criteria |-> criteria, result |-> NoScore]
       \/ \E workload \in PenaltyWorkloads, criteria \in PenaltyCriteria :
              scoreRun = [op |-> "none", target |-> "penalty", issue |-> ProcessedIssue,
                          profile |-> NoProfile, workload |-> workload,
                          criteria |-> criteria, result |-> NoScore]

ScoreNext ==
    \/ ScoreRun
    \/ PenaltyRun

ScoreSpec == ScoreInit /\ [][ScoreNext]_vars

\* ------------------------------------------------------------------------
\* Specification: the sort of the ranker applied to lists of scored
\* candidates, ties on every key among them
\* ------------------------------------------------------------------------

\* longest list of candidates handed to the sort (bound of the model)
MaxRanked == 3

\* display name, raw score and workload penalty of a scored candidate
RankerShapes ==
    [displayName : {"Alice", "Bob"}, rawScore : {220000, 250000},
     workloadPenalty : {0, 20000, 50000}]

\* scored candidates in roster order, as candidates.push builds the list
RankerInput(shapes) ==
    [i \in 1..Len(shapes) |->
        [accountId |-> AccountNames[i],
         displayName |-> shapes[i].displayName,
         rawScore |-> shapes[i].rawScore,
         workloadPenalty |-> shapes[i].workloadPenalty,
         finalScore |-> shapes[i].rawScore - shapes[i].workloadPenalty]]

\* candidates.sort(...) on the list that was built
SortRun ==
    /\ ~rankerRun.sorted
    /\ rankerRun' = [rankerRun EXCEPT !.output = SortCandidates(rankerRun.input),
                                      !.sorted = TRUE]
    /\ UNCHANGED <<store, roster, issues, call, exhausted, stateRun, scoreRun, kvs, cacheRun>>

RankInit ==
    /\ store = [k \in IssueKeys |-> NoStored]
    /\ roster = {}
    /\ issues = {}
    /\ call = [p \in Procs |-> IdleCall]
    /\ exhausted = FALSE
    /\ stateRun = NoStateRun
    /\ kvs = NoCache
    /\ cacheRun = NoCacheRun
    /\ scoreRun = NoScoreRun
    /\ \E n \in 0..MaxRanked :
          \E shapes \in [1..n -> RankerShapes] :
             rankerRun = [NoRankerRun EXCEPT !.input = RankerInput(shapes)]

RankNext == SortRun

RankSpec == RankInit /\ [][RankNext]_vars

TypeOK ==
    /\ roster \in RosterValues
    /\ issues \subseteq IssueKeys
    /\ exhausted \in BOOLEAN
    /\ \A k \in IssueKeys : NoDuplicates(store[k].declinedAccountIds)
    /\ \A p \in Procs :
          call[p].pc \in {"idle", "prepare", "rank", "attempt", "refetch", "persist",
                           "set", "done"}

\* ------------------------------------------------------------------------
\* Vocabulary of the properties
\* ------------------------------------------------------------------------

TerminalStatuses ==
    {"declined-exhausted", "no-candidate-found", "assignment-failed",
     "recommendation-only", "assigned"}

\* the call of slot p has returned a result (it did not throw)
Returned(p) == call[p].pc = "done" /\ call[p].result.status \in TerminalStatuses

\* persisted declines at the start of the call plus the decline of the call
DeclinedOf(c) ==
    Range(c.storeBefore.declinedAccountIds)
        \cup (IF c.declinedAccountId # Null THEN {c.declinedAccountId} ELSE {})

\* the assignment writes the call attempted, in order
WritesOf(c) == SelectSeq(c.log, LAMBDA e : e.type = "write")

\* the accounts of a list of scored candidates, in order
AccountIdsOf(list) == [i \in 1..Len(list) |-> list[i].accountId]

\* positions of the events of a type in the effects of a call
EventsAt(c, type) == {i \in 1..Len(c.log) : c.log[i].type = type}

\* position of the first event of a type that occurs in the effects of a call
FirstAt(c, type) ==
    CHOOSE i \in EventsAt(c, type) : \A j \in EventsAt(c, type) : i <= j

HasEvent(c, type) == \E i \in 1..Len(c.log) : c.log[i].type = type

\* ------------------------------------------------------------------------
\* Properties
\* ------------------------------------------------------------------------

\* C1: every call that returns carries exactly one of the five terminal
\* statuses; success is true exactly for recommendation-only and assigned; the
\* status is recommendation-only iff skipAssignment was set and the ranked
\* list was non-empty.
C1_StatusContract ==
    \A p \in Procs :
        (call[p].pc = "done" /\ call[p].result.status # "threw") =>
            LET c == call[p] r == c.result IN
            /\ r.status \in TerminalStatuses
            /\ r.success <=> r.status \in {"recommendation-only", "assigned"}
            /\ r.status = "recommendation-only"
                   <=> (c.skipAssignment /\ c.candidateList # <<>>)

C1_Witness ==
    \E p \in Procs :
        /\ Returned(p)
        /\ call[p].result.status = "recommendation-only"
        /\ call[p].result.success
        /\ Len(call[p].candidateList) >= 2

\* C2 as stated: an empty ranked list with at least as many declined accounts
\* as assignable accounts gives declined-exhausted and leaves the persisted
\* state of the issue as it was.
C2_Original ==
    \A p \in Procs :
        LET c == call[p] IN
        (/\ Returned(p)
         /\ c.candidateList = <<>>
         /\ Len(c.updatedState.declinedAccountIds) >= Cardinality(c.assignable)) =>
            /\ c.result.status = "declined-exhausted"
            /\ store[c.issueKey] = c.storeBefore

\* C2 amended: the same, for a project that has at least one assignable
\* account.
C2_DeclinedExhausted ==
    \A p \in Procs :
        LET c == call[p] IN
        (/\ Returned(p)
         /\ c.candidateList = <<>>
         /\ Cardinality(c.assignable) > 0
         /\ Len(c.updatedState.declinedAccountIds) >= Cardinality(c.assignable)) =>
            /\ c.result.status = "declined-exhausted"
            /\ store[c.issueKey] = c.storeBefore

C2_Witness ==
    \E p \in Procs :
        /\ Returned(p)
        /\ call[p].result.status = "declined-exhausted"
        /\ Cardinality(call[p].assignable) = 2
        /\ call[p].declinedAccountId # Null
        /\ call[p].storeBefore.exists
        /\ store[call[p].issueKey] = call[p].storeBefore

\* C3: an empty ranked list for any reason other than all assignable accounts
\* being declined gives no-candidate-found, and afterwards no persisted
\* assignment state exists for the issue key.
C3_NoCandidateClearsState ==
    \A p \in Procs :
        LET c == call[p] IN
        (/\ Returned(p)
         /\ c.candidateList = <<>>
         /\ ~(c.assignable # {} /\ c.assignable \subseteq Range(c.updatedState.declinedAccountIds))) =>
            /\ c.result.status = "no-candidate-found"
            /\ ~store[c.issueKey].exists
            /\ loadAssignmentState(store, c.issueKey) = EmptyState

\* C4: with a roster of two accounts that stays fixed, once a call has
\* returned declined-exhausted, a later call without a new decline returns
\* declined-exhausted as well (and so proposes no account).
C4_ExhaustedStays ==
    \A p \in Procs :
        LET c == call[p] IN
        (/\ Returned(p)
         /\ c.wasExhausted
         /\ c.declinedAccountId = Null
         /\ Cardinality(c.assignable) = 2) =>
            /\ c.result.status = "declined-exhausted"
            /\ ~c.result.hasAssignee

\* C5: after a call with a declinedAccountId returns with a terminal status,
\* the persisted declinedAccountIds of the issue contains that account.
C5_DeclinePersisted ==
    \A p \in Procs :
        LET c == call[p] IN
        (Returned(p) /\ c.declinedAccountId # Null) =>
            Contains(store[c.issueKey].declinedAccountIds, c.declinedAccountId)

C7_RegisterDecline ==
    \A p \in Procs :
        LET c == call[p] IN
        (c.pc # "idle" /\ c.declinedAccountId # Null) =>
            /\ Range(c.updatedState.declinedAccountIds)
                   = Range(c.state.declinedAccountIds) \cup {c.declinedAccountId}
            /\ NoDuplicates(c.updatedState.declinedAccountIds)
            /\ c.updatedState.currentAccountId = Null
            /\ c.state.currentAccountId = c.storeBefore.currentAccountId
            /\ c.state.declinedAccountIds = c.storeBefore.declinedAccountIds
            /\ registerDecline(c.updatedState, c.declinedAccountId).declinedAccountIds
                   = c.updatedState.declinedAccountIds

C7_Witness ==
    \E p \in Procs :
        LET c == call[p] IN
        /\ c.pc = "prepare"
        /\ c.declinedAccountId # Null
        /\ c.state.currentAccountId # Null
        /\ Len(c.state.declinedAccountIds) >= 1
        /\ ~Contains(c.state.declinedAccountIds, c.declinedAccountId)
        /\ Len(c.updatedState.declinedAccountIds) = Len(c.state.declinedAccountIds) + 1

\* C8: neither the assignee nor an alternative of a result is a declined
\* account, and no assignment write is attempted for a declined account.
C8_DeclinedNeverProposed ==
    \A p \in Procs :
        LET c == call[p] IN
        /\ c.result.hasAssignee =>
              /\ c.result.assignee.accountId \notin DeclinedOf(c)
              /\ \A i \in 1..Len(c.result.alternatives) :
                     c.result.alternatives[i].accountId \notin DeclinedOf(c)
        /\ \A i \in 1..Len(c.log) :
              c.log[i].type = "write" => c.log[i].accountId \notin DeclinedOf(c)

C8_Witness ==
    \E p \in Procs :
        LET c == call[p] IN
        /\ Returned(p)
        /\ c.result.status = "assigned"
        /\ c.declinedAccountId \in c.assignable
        /\ c.storeBefore.declinedAccountIds # <<>>
        /\ ~Contains(c.storeBefore.declinedAccountIds, c.declinedAccountId)
        /\ Cardinality(c.assignable) = 3

\* C9: when every attempted write is rejected the call returns
\* assignment-failed with success false, the persisted state is unchanged,
\* nothing is persisted, no summary is posted, and attemptErrors has one
\* {accountId, message} entry per attempted candidate, in attempt order.
C9_AllRejected ==
    \A p \in Procs :
        LET c == call[p] w == WritesOf(c) IN
        (/\ c.pc = "done"
         /\ c.result.status # "threw"
         /\ w # <<>>
         /\ \A i \in 1..Len(w) : ~w[i].ok) =>
            /\ c.result.status = "assignment-failed"
            /\ ~c.result.success
            /\ store[c.issueKey] = c.storeBefore
            /\ ~HasEvent(c, "persist")
            /\ ~HasEvent(c, "summary-comment")
            /\ Len(c.result.attemptErrors) = Len(w)
            /\ \A i \in 1..Len(w) :
                   c.result.attemptErrors[i]
                       = [accountId |-> w[i].accountId, message |-> "rejected"]

C9_Witness ==
    \E p \in Procs :
        LET c == call[p] IN
        /\ Returned(p)
        /\ c.result.status = "assignment-failed"
        /\ Len(c.result.attemptErrors) >= 2
        /\ c.declinedAccountId # Null
        /\ c.commentOnAssignment
        /\ ~Contains(store[c.issueKey].declinedAccountIds, c.declinedAccountId)

\* C10: within one invocation the assignment write is attempted at most once
\* per account, also when the re-fetched roster still contains a failed one.
C10_AttemptedAtMostOnce ==
    \A p \in Procs :
        LET w == WritesOf(call[p]) IN
        \A i, j \in 1..Len(w) : w[i].accountId = w[j].accountId => i = j

C10_Witness ==
    \E p \in Procs :
        LET c == call[p] w == WritesOf(c) IN
        /\ c.pc = "attempt"
        /\ Len(w) >= 2
        /\ \A i \in 1..Len(w) : ~w[i].ok /\ w[i].accountId \in roster
        /\ c.workingCandidates # <<>>

\* C11: the fallback loop ends in assignment-failed exactly when every write
\* it attempted failed and the recomputed queue is empty; it stops at the
\* first successful write, so at most one write of a call succeeds and no
\* write follows a successful one.
C11_FallbackOutcome ==
    \A p \in Procs :
        LET c == call[p] w == WritesOf(c) IN
        /\ \A i \in 1..Len(w) : w[i].ok => i = Len(w)
        /\ (w # <<>> /\ w[Len(w)].ok) => c.pc \in {"persist", "done"}
        /\ (c.pc = "done" /\ ~c.skipAssignment /\ c.candidateList # <<>>) =>
               (c.result.status = "assignment-failed"
                   <=> /\ w # <<>>
                       /\ \A i \in 1..Len(w) : ~w[i].ok
                       /\ c.workingCandidates = <<>>)

C11_Witness ==
    \E p \in Procs :
        LET c == call[p] w == WritesOf(c) IN
        /\ Returned(p)
        /\ c.result.status = "assigned"
        /\ Len(w) >= 2
        /\ c.workingCandidates # <<>>

\* C12: when the roster stays as it is and the writes for the first k ranked
\* candidates fail and the next write succeeds, the call ends assigned,
\* attemptErrors names the k failed accounts in the order of the attempts, and
\* the assignee is the (k+1)-th candidate of the ranking.
C12_FallbackPicksNextRanked ==
    \A p \in Procs :
        LET c == call[p]
            w == WritesOf(c)
            k == Len(w) - 1
        IN (/\ c.pc = "done"
            /\ w # <<>>
            /\ w[Len(w)].ok) =>
               /\ c.result.status = "assigned"
               /\ Len(c.result.attemptErrors) = k
               /\ \A i \in 1..k : c.result.attemptErrors[i].accountId = w[i].accountId
               /\ c.result.assignee.accountId = c.candidateList[k + 1].accountId

\* C13: a preview call (skipAssignment) with a non-empty ranked list makes no
\* assignment write and posts no summary, returns recommendation-only with the
\* top-ranked candidate, and persists that candidate as currentAccountId
\* together with the full declined set.
C13_PreviewFrame ==
    \A p \in Procs :
        LET c == call[p] IN
        (Returned(p) /\ c.skipAssignment /\ c.candidateList # <<>>) =>
            /\ WritesOf(c) = <<>>
            /\ ~HasEvent(c, "summary-comment")
            /\ c.result.status = "recommendation-only"
            /\ c.result.assignee = c.candidateList[1]
            /\ store[c.issueKey].exists
            /\ store[c.issueKey].currentAccountId = c.candidateList[1].accountId
            /\ Range(store[c.issueKey].declinedAccountIds) = DeclinedOf(c)

C13_Witness ==
    \E p \in Procs :
        LET c == call[p] IN
        /\ Returned(p)
        /\ c.skipAssignment
        /\ c.commentOnAssignment
        /\ c.candidateList # <<>>
        /\ c.declinedAccountId # Null
        /\ c.storeBefore.declinedAccountIds # <<>>
        /\ ~Contains(c.storeBefore.declinedAccountIds, c.declinedAccountId)

\* C14: when a call returns assigned, exactly one assignment write of the
\* call succeeded, the returned assignee is the account of that write, and
\* the persisted currentAccountId of the issue is that account.
C14_AssignedMeansOneWrite ==
    \A p \in Procs :
        LET c == call[p]
            w == WritesOf(c)
            succeeded == {i \in 1..Len(w) : w[i].ok}
        IN (Returned(p) /\ c.result.status = "assigned") =>
               /\ Cardinality(succeeded) = 1
               /\ \A i \in succeeded :
                      /\ c.result.assignee.accountId = w[i].accountId
                      /\ store[c.issueKey].currentAccountId = w[i].accountId

C14_Witness ==
    \E p \in Procs :
        LET c == call[p] w == WritesOf(c) IN
        /\ Returned(p)
        /\ c.result.status = "assigned"
        /\ Len(w) >= 2
        /\ c.result.assignee.accountId # c.candidateList[1].accountId
        /\ c.storeBefore.exists
        /\ c.storeBefore.currentAccountId # c.result.assignee.accountId

\* C15: the list the ranker returns is sorted by descending finalScore, ties
\* by descending rawScore, remaining ties by ascending displayName: no entry
\* ranks after its successor; the list holds the candidates that were scored.
C15_RankedOrder ==
    rankerRun.sorted =>
        LET out == rankerRun.output IN
        /\ Len(out) = Len(rankerRun.input)
        /\ Range(out) = Range(rankerRun.input)
        /\ \A i \in 1..(Len(out) - 1) :
               LET a == out[i] b == out[i + 1] IN
               \/ a.finalScore > b.finalScore
               \/ /\ a.finalScore = b.finalScore
                  /\ a.rawScore > b.rawScore
               \/ /\ a.finalScore = b.finalScore
                  /\ a.rawScore = b.rawScore
                  /\ NameRank(a.displayName) <= NameRank(b.displayName)

C15_Witness ==
    /\ rankerRun.sorted
    /\ Len(rankerRun.input) = 3
    /\ rankerRun.input[1].finalScore = 200000 /\ rankerRun.input[1].rawScore = 220000
    /\ rankerRun.input[2].finalScore = 200000 /\ rankerRun.input[2].rawScore = 250000
    /\ rankerRun.input[3] = [rankerRun.input[2] EXCEPT !.accountId = AccountNames[3],
                                                       !.displayName = "Alice"]
    /\ rankerRun.input[2].displayName = "Bob"
    /\ AccountIdsOf(rankerRun.output) = <<AccountNames[3], AccountNames[2], AccountNames[1]>>

\* C16: the ranker returns exactly one entry for every roster account that is
\* not excluded and none for an excluded one, accounts without cached profile
\* or workload included; an empty or fully excluded roster gives the empty
\* list.  This holds for the first ranking and for every re-ranking.
C16_OnePerEligible ==
    \A p \in Procs :
        LET c == call[p]
            declined == Range(c.updatedState.declinedAccountIds)
            excluded == declined \cup Range(c.temporaryExclusions)
        IN /\ HasEvent(c, "roster") =>
                 /\ Range(AccountIdsOf(c.candidateList)) = c.assignable \ declined
                 /\ NoDuplicates(AccountIdsOf(c.candidateList))
           /\ (c.pc = "attempt" /\ c.log[Len(c.log)].type = "roster"
                   /\ c.temporaryExclusions # <<>>) =>
                 /\ Range(AccountIdsOf(c.workingCandidates)) = roster \ excluded
                 /\ NoDuplicates(AccountIdsOf(c.workingCandidates))

C16_Witness ==
    \E p \in Procs :
        LET c == call[p] IN
        /\ c.pc = "attempt"
        /\ c.temporaryExclusions # <<>>
        /\ c.updatedState.declinedAccountIds # <<>>
        /\ Range(c.updatedState.declinedAccountIds) \subseteq roster
        /\ \E a \in Range(AccountIdsOf(c.workingCandidates)) :
               ~Profiles[a].present /\ ~Workloads[a].present

C18_RefreshPlacement ==
    \A p \in Procs :
        LET c == call[p]
            refreshes == EventsAt(c, "refresh")
            later == EventsAt(c, "issue-read") \cup EventsAt(c, "roster")
                        \cup EventsAt(c, "write")
        IN /\ (c.pc \notin {"idle", "prepare"} /\ ~c.skipAssignment) =>
                 /\ refreshes # {}
                 /\ \A i \in EventsAt(c, "load") : i < FirstAt(c, "refresh")
                 /\ \A j \in later : FirstAt(c, "refresh") < j
           /\ \A i \in EventsAt(c, "write") :
                 c.log[i].ok =>
                     /\ \E j \in refreshes : i < j
                     /\ Returned(p) => \E j \in refreshes : i < j /\ j < Len(c.log)
           /\ (c.pc \notin {"idle", "prepare"} /\ c.skipAssignment
                  /\ c.issueCachedBefore) => refreshes = {}

C18_Witness ==
    \E p \in Procs :
        LET c == call[p] IN
        /\ Returned(p)
        /\ c.result.status = "assigned"
        /\ c.issueCachedBefore
        /\ Cardinality(EventsAt(c, "refresh")) = 2
        /\ Len(WritesOf(c)) >= 2

\* C19: when the refresh a committing call requests before ranking fails and
\* an issue profile was cached before the call, the call does not go on to
\* rank and write from that profile: it makes no assignment write and does
\* not end assigned.
C19_FailedRefreshStops ==
    \A p \in Procs :
        LET c == call[p] IN
        (/\ c.pc \notin {"idle", "prepare"}
         /\ ~c.skipAssignment
         /\ c.issueCachedBefore
         /\ ~c.log[FirstAt(c, "refresh")].ok) =>
            /\ WritesOf(c) = <<>>
            /\ c.result.status # "assigned"

\* C20: when the issue profile is not available the call scrapes the issue
\* exactly once and reads it again; when it is still unavailable the call
\* throws instead of returning a status, makes no assignment write and leaves
\* the persisted assignment state of the issue as it was.
C20_EnsureProcessedIssue ==
    \A p \in Procs :
        LET c == call[p]
            reads == EventsAt(c, "issue-read")
            first == FirstAt(c, "issue-read")
            retries == {i \in EventsAt(c, "refresh") : i > first}
            threw == c.pc = "done" /\ c.result.status = "threw"
        IN c.pc \notin {"idle", "prepare"} =>
              /\ c.log[first].ok => Cardinality(reads) = 1 /\ ~threw
              /\ ~c.log[first].ok =>
                    /\ Len(c.log) >= first + 2
                    /\ c.log[first + 1].type = "refresh"
                    /\ c.log[first + 2].type = "issue-read"
                    /\ Cardinality(reads) = 2
                    /\ Cardinality({i \in retries : i < first + 2}) = 1
                    /\ threw <=> ~c.log[first + 2].ok
              /\ threw =>
                    /\ WritesOf(c) = <<>>
                    /\ ~HasEvent(c, "roster")
                    /\ ~HasEvent(c, "persist")
                    /\ ~HasEvent(c, "clear")
                    /\ store[c.issueKey] = c.storeBefore

C20_Witness ==
    \E p \in Procs :
        LET c == call[p] IN
        /\ c.pc = "done"
        /\ c.result.status = "threw"
        /\ ~c.skipAssignment
        /\ c.declinedAccountId # Null
        /\ c.commentOnDecline
        /\ Cardinality(EventsAt(c, "refresh")) = 2

\* C21: a call whose issue key is missing, empty or not a string throws
\* before anything else happens: no state load, notification, refresh, roster
\* read or assignment write, and everything persisted stays as it is.
C21_InvalidKeyThrows ==
    [][\A p \in Procs :
          call'[p].keyInput \in InvalidKeys /\ call'[p].pc # "idle" =>
              /\ call'[p].pc = "done"
              /\ call'[p].result.status = "threw"
              /\ call'[p].log = <<>>
              /\ (call[p].pc = "idle" =>
                     store' = store /\ issues' = issues /\ roster' = roster)]_vars

C21_Witness ==
    \E p \in Procs :
        LET c == call[p] IN
        /\ c.pc = "done"
        /\ c.keyInput = StringKey("")
        /\ c.declinedAccountId # Null
        /\ ~c.skipAssignment
        /\ \E k \in IssueKeys : store[k].exists /\ store[k].declinedAccountIds # <<>>

\* the call of the slot has written its assignment state
Persisted(p) == call[p].pc = "done" /\ HasEvent(call[p], "persist")

\* C22: concurrent invocations for one issue key are not serialised: each
\* loads, changes and persists its own copy of the state, so the persisted
\* declined list is always the list of one single call (what it loaded plus
\* its own decline), and a decline registered by the other call can be
\* missing from it.
C22_LastWriterWins ==
    \A k \in CallKeys :
        store[k].exists =>
            \E p \in Procs :
                /\ Persisted(p)
                /\ call[p].issueKey = k
                /\ Range(store[k].declinedAccountIds) = DeclinedOf(call[p])

C22_Witness ==
    \E p, q \in Procs :
        /\ p # q
        /\ Persisted(p) /\ Persisted(q)
        /\ call[p].issueKey = call[q].issueKey
        /\ call[p].declinedAccountId # Null
        /\ call[p].declinedAccountId
               \notin Range(store[call[p].issueKey].declinedAccountIds)

\* C23: clearAssignmentState(issueKey) removes the persisted state of the key
\* entirely, so that a following load yields the default state, and leaves
\* the state of every other key as it was.
C23_ClearRemovesState ==
    stateRun.op = "clear" /\ stateRun.issueKey \in IssueKeys =>
        /\ ~store[stateRun.issueKey].exists
        /\ stateRun.loaded.currentAccountId = Null
        /\ stateRun.loaded.declinedAccountIds = <<>>
        /\ \A k \in IssueKeys \ {stateRun.issueKey} : store[k] = stateRun.before[k]

\* C24: persisting a state and loading it again is a round trip: the same
\* current account and the same set of declined accounts, none lost and none
\* twice; a load of a key with nothing persisted gives no current account and
\* no declined accounts.
C24_PersistLoadRoundTrip ==
    /\ stateRun.op = "persist" =>
           /\ stateRun.loaded.currentAccountId = stateRun.state.currentAccountId
           /\ Range(stateRun.loaded.declinedAccountIds)
                  = Range(stateRun.state.declinedAccountIds)
           /\ NoDuplicates(stateRun.loaded.declinedAccountIds)
    /\ stateRun.op = "load" /\ ~stateRun.before[stateRun.issueKey].exists =>
           /\ stateRun.loaded.currentAccountId = Null
           /\ stateRun.loaded.declinedAccountIds = <<>>

C24_Witness ==
    /\ stateRun.op = "persist"
    /\ stateRun.before[stateRun.issueKey].exists
    /\ stateRun.state.currentAccountId = AccountNames[2]
    /\ stateRun.state.declinedAccountIds
           = <<AccountNames[2], AccountNames[1], AccountNames[2]>>
    /\ stateRun.loaded.declinedAccountIds = <<AccountNames[2], AccountNames[1]>>

\* C25: for every input of calculateCandidateScore the final score is the
\* raw score minus the workload penalty (a raw score that is not a finite
\* number gives a final score of the same kind).
C25_FinalScoreFormula ==
    scoreRun.op = "score" =>
        LET r == scoreRun.result IN
        /\ r.finalScoreKind = r.rawScoreKind
        /\ r.finalScore = IF r.rawScoreKind = "finite"
                           THEN r.rawScore - r.workloadPenalty ELSE 0

C25_Witness ==
    /\ scoreRun.op = "score"
    /\ scoreRun.result.rawScoreKind = "finite"
    /\ scoreRun.result.rawScore > 0
    /\ scoreRun.result.workloadPenalty > 0
    /\ scoreRun.result.finalScore < 0

\* C26: counts that are zero, negative or not numeric coerce to 0 and add
\* nothing, so that the raw score of every input is a finite number that is
\* not negative.
C26_MalformedCountsNeutral ==
    scoreRun.op = "score" =>
        /\ scoreRun.result.rawScoreKind = "finite"
        /\ scoreRun.result.rawScore >= 0

\* the evidence entry a signal records, by the flag that switches it
EvidenceName(flag) ==
    CASE flag = "labels" -> "labels"
      [] flag = "components" -> "components"
      [] flag = "issueType" -> "issueTypes"
      [] flag = "epic" -> "epics"
      [] flag = "parent" -> "parents"
      [] flag = "previousAssignee" -> "historical-assignee"
      [] flag = "worklogs" -> "worklog"
      [] flag = "comments" -> "comment"
      [] flag = "overallAssignments" -> "assigned-issue-count"
      [] flag = "overallWorklogs" -> "worklog-issue-count"
      [] flag = "overallComments" -> "comment-issue-count"
      [] OTHER -> "penalties"

\* the flags a run was made with switched off
DisabledFlags(run) ==
    IF run.criteria.supplied THEN {f \in CriteriaFlags : ~run.criteria[f]} ELSE {}

\* the score of the run's input with the data of every disabled signal taken
\* out of the issue, the profile and the workload
ScoreWithoutDisabledData(run) ==
    LET off == DisabledFlags(run)
        issue == [run.issue EXCEPT
            !.labels = IF "labels" \in off THEN <<>> ELSE @,
            !.components = IF "components" \in off THEN <<>> ELSE @,
            !.issueType = IF "issueType" \in off THEN Null ELSE @,
            !.epic = IF "epic" \in off THEN Null ELSE @,
            !.parent = IF "parent" \in off THEN Null ELSE @,
            !.historicalAssignees = IF "previousAssignee" \in off THEN <<>> ELSE @,
            !.worklogContributors = IF "worklogs" \in off THEN <<>> ELSE @,
            !.commentContributors = IF "comments" \in off THEN <<>> ELSE @]
        profile == [run.profile EXCEPT
            !.assignedIssues = IF "overallAssignments" \in off THEN 0 ELSE @,
            !.worklogIssues = IF "overallWorklogs" \in off THEN 0 ELSE @,
            !.commentedIssues = IF "overallComments" \in off THEN 0 ELSE @]
        workload == [run.workload EXCEPT
            !.totalIssues = IF "workloadOpenIssues" \in off THEN Num(0) ELSE @,
            !.estimateHours = IF "workloadEstimateHours" \in off THEN Num(0) ELSE @]
    IN calculateCandidateScore(issue, ScoredAccount, "Alice", profile, workload,
                               run.criteria)

\* C27: a signal whose flag is false records no evidence entry and adds
\* nothing to the score, whatever the issue and the profile hold for it (the
\* result is the one of the input without that data); with no criteria
\* supplied the result is the one of all thirteen flags enabled.
C27_DisabledSignalsSilent ==
    scoreRun.op = "score" =>
        /\ \A f \in DisabledFlags(scoreRun) :
               EvidenceName(f) \notin scoreRun.result.evidence
        /\ scoreRun.result = ScoreWithoutDisabledData(scoreRun)
        /\ ~scoreRun.criteria.supplied =>
               scoreRun.result =
                   calculateCandidateScore(scoreRun.issue, ScoredAccount, "Alice",
                       scoreRun.profile, scoreRun.workload, CriteriaWith(CriteriaFlags))

C27_Witness ==
    /\ scoreRun.op = "score"
    /\ scoreRun.criteria = CriteriaWith(CriteriaFlags \ {"worklogs"})
    /\ scoreRun.issue.worklogContributors # <<>>
    /\ scoreRun.issue.worklogContributors[1].logCount = NotNumeric
    /\ scoreRun.result.rawScoreKind = "finite"
    /\ scoreRun.result.rawScore > 0
    /\ "labels" \in scoreRun.result.evidence

\* C28: the workload penalty is never negative; it is zero when the snapshot
\* is absent, is no object, has no numeric field or both workload flags are
\* off, and a term whose flag is off is not part of it.
C28_PenaltyNeverNegative ==
    scoreRun.op = "penalty" =>
        LET w == scoreRun.workload
            off == DisabledFlags(scoreRun)
            p == scoreRun.result.workloadPenalty
        IN /\ p >= 0
           /\ (~w.present \/ ~w.object) => p = 0
           /\ (w.totalIssues.type # "number" /\ w.estimateHours.type # "number") => p = 0
           /\ {"workloadOpenIssues", "workloadEstimateHours"} \subseteq off => p = 0
           /\ (w.present /\ w.object /\ "workloadOpenIssues" \in off
                   /\ "workloadEstimateHours" \notin off
                   /\ w.estimateHours.type = "number") =>
                  p = W_WORKLOAD_ESTIMATE_HOURS * w.estimateHours.n
           /\ (w.present /\ w.object /\ "workloadEstimateHours" \in off
                   /\ "workloadOpenIssues" \notin off
                   /\ w.totalIssues.type = "number") =>
                  p = W_WORKLOAD_OPEN_ISSUES * w.totalIssues.n

\* C29 as stated: the queue recomputed after a failed attempt is never longer
\* than the queue was before that attempt (the candidate and those behind
\* it), also when the roster changed meanwhile.
C29_QueueOnlyShrinks ==
    [][\A p \in Procs :
          call[p].pc = "refetch" /\ call'[p].pc = "attempt" =>
              Len(call'[p].workingCandidates) <= Len(call[p].workingCandidates) + 1]_vars

\* C29: the fallback loop always terminates. With the roster drawn from N
\* accounts it makes at most N write attempts: every failed attempt adds the
\* attempted account to the temporary exclusions and the recomputed queue
\* holds only accounts outside them, so it is never longer than N minus the
\* number of failed attempts. A roster that grew meanwhile can make the
\* recomputed queue longer than the queue before the attempt.
C29_FallbackTerminates ==
    /\ [](\A p \in Procs :
             LET c == call[p] IN
             /\ Len(WritesOf(c)) <= Cardinality(Accounts)
             /\ c.pc \in {"attempt", "refetch"} =>
                    /\ NoDuplicates(c.temporaryExclusions)
                    /\ Len(c.temporaryExclusions) = Len(WritesOf(c))
                    /\ Range(AccountIdsOf(c.workingCandidates))
                           \cap Range(c.temporaryExclusions) = {}
                    /\ Len(c.workingCandidates)
                           <= Cardinality(Accounts) - Len(c.temporaryExclusions))
    /\ \A p \in Procs :
           call[p].pc \in {"attempt", "refetch"} ~> call[p].pc \in {"persist", "done"}

C29_Witness ==
    \E p \in Procs :
        LET c == call[p] IN
        /\ c.pc = "attempt"
        /\ Len(WritesOf(c)) = 1
        /\ Len(c.candidateList) = 1
        /\ Len(c.workingCandidates) = 2

\* the accounts whose assignment write was rejected in the call
FailedOf(c) == {e.accountId : e \in {w \in Range(WritesOf(c)) : ~w.ok}}

\* C30: an account whose write was rejected is excluded for the current call
\* only. After a call that ends assigned following failed attempts, the
\* persisted declined list is the baseline (the persisted declines plus the
\* decline of the call) and holds no failed account, and neither the returned
\* declined list nor the returned alternatives hold one.
C30_FailuresNotPersisted ==
    \A p \in Procs :
        LET c == call[p] IN
        (c.pc = "done" /\ c.result.status = "assigned" /\ FailedOf(c) # {}) =>
            /\ Range(store[c.issueKey].declinedAccountIds) = DeclinedOf(c)
            /\ Range(c.result.declined) = DeclinedOf(c)
            /\ FailedOf(c) \cap DeclinedOf(c) = {}
            /\ FailedOf(c) \cap Range(AccountIdsOf(c.result.alternatives)) = {}
            /\ c.result.assignee.accountId \notin FailedOf(c)

C30_Witness ==
    \E p \in Procs :
        LET c == call[p] IN
        /\ c.pc = "done"
        /\ c.result.status = "assigned"
        /\ FailedOf(c) # {}
        /\ c.storeBefore.declinedAccountIds # <<>>
        /\ FailedOf(c) \subseteq roster

\* C31: getAssignmentState of an issue key returns the state persisted for the
\* key, its current account and exactly its declined accounts, and returns
\* null when nothing is persisted for the key or the key is not valid.
C31_GetReturnsPersisted ==
    stateRun.op = "get" =>
        IF stateRun.issueKey \in IssueKeys /\ stateRun.before[stateRun.issueKey].exists
        THEN /\ ~stateRun.returnedNull
             /\ stateRun.loaded.currentAccountId
                    = stateRun.before[stateRun.issueKey].currentAccountId
             /\ Range(stateRun.loaded.declinedAccountIds)
                    = Range(stateRun.before[stateRun.issueKey].declinedAccountIds)
        ELSE stateRun.returnedNull

\* the declineAssignment resolver of slot p has answered
DeclineAnswered(p) == call[p].pc = "done" /\ call[p].resolver = "declineAssignment"

KeysOf(bucket) == kvs[bucket].keys

\* C33: after uncacheIssue of an issue key, called directly or for the event
\* of a deleted issue, the issue, its summary and its assignment state are
\* gone: reading any of the three gives nothing.
C33_UncacheRemovesAll ==
    cacheRun.op \in {"uncacheIssue", "deleted"} =>
        /\ cacheRun.issueKey \notin KeysOf("issues")
        /\ cacheRun.issueKey \notin KeysOf("summaries")
        /\ cacheRun.issueKey \notin KeysOf("assignmentStates")

\* C34: resetCache leaves none of the five buckets; initialiseCache leaves
\* all five, created empty and filled by one project scrape, exactly when
\* one of them was missing, and otherwise changes nothing and scrapes
\* nothing, so that a second initialiseCache does nothing.
C34_ResetAndInitialise ==
    /\ cacheRun.op = "resetCache" => \A b \in BucketNames : ~kvs[b].defined
    /\ cacheRun.op = "initialiseCache" =>
          /\ \A b \in BucketNames : kvs[b].defined
          /\ cacheRun.scraped <=> \E b \in BucketNames : ~cacheRun.before[b].defined
          /\ ~cacheRun.scraped => kvs = cacheRun.before
          /\ cacheRun.scraped =>
                 /\ KeysOf("summaries") = {} /\ KeysOf("assignmentStates") = {}
                 /\ KeysOf("issues") = cacheRun.issueKeys
                 /\ KeysOf("users") = cacheRun.users
                 /\ KeysOf("workloads") = cacheRun.users
          /\ \A users \in ScrapedUsers, issueKeys \in ScrapedIssues :
                 initialiseCache(kvs, users, issueKeys) = [kvs |-> kvs, scraped |-> FALSE]

\* initialiseCache has run on a storage where some buckets held entries and
\* another was missing
C34_Witness ==
    /\ cacheRun.op = "initialiseCache"
    /\ cacheRun.scraped
    /\ \E b \in BucketNames : cacheRun.before[b].keys # {}
    /\ \E b \in BucketNames : cacheRun.before[b].defined
    /\ KeysOf("issues") # {}

\* C35: the queue recomputed after a rejected write is ranked with the
\* criteria of the caller: while the roster stays as it is, it is the initial
\* ranking of the call, scores included, without the accounts excluded since.
C35_RerankUsesCallerCriteria ==
    \A p \in Procs :
        LET c == call[p]
        IN (c.pc = "attempt" /\ c.temporaryExclusions # <<>>) =>
               c.workingCandidates =
                   SelectSeq(c.candidateList,
                             LAMBDA candidate :
                                 ~Contains(c.temporaryExclusions, candidate.accountId))

\* C36: a step of an invocation that persists or clears the state of its
\* issue key leaves the persisted state of every other key as it is, also
\* when invocations for different keys interleave at the reads and writes of
\* the storage.
C36_OtherKeysUntouched ==
    [][\A p \in Procs :
          call'[p] # call[p] =>
              \A k \in IssueKeys \ {IssueOf(p)} : store'[k] = store[k]]_vars

\* C37: in every persisted assignment state, whatever calls of recommendAssignee
\* ran and however they interleaved, the current account, when there is one,
\* is not among the declined accounts of that state.
C37_CurrentNeverDeclined ==
    \A k \in IssueKeys :
        (store[k].exists /\ store[k].currentAccountId # Null) =>
            ~Contains(store[k].declinedAccountIds, store[k].currentAccountId)

\* two calls have persisted, the second declining the account the first
\* recommended, and the state holds the decline and another current account
C37_Witness ==
    /\ \A p \in Procs : Persisted(p)
    /\ call[2].declinedAccountId = call[1].result.assignee.accountId
    /\ call[2].declinedAccountId # Null
    /\ store[call[2].issueKey].currentAccountId # Null
    /\ Contains(store[call[2].issueKey].declinedAccountIds, call[2].declinedAccountId)

====
